---------------------------- MODULE Spec2Model ----------------------------
(***************************************************************************)
(* State-machine model of the N2SQL schema-context retrieval and SQL       *)
(* generation pipeline: EnhancedRAGSystem, VannaClientRepository,          *)
(* ProcessQueryUseCase, the /query route and RealSchemaExtractor.          *)
(*                                                                         *)
(* Python strings that the code inspects (lower(), strip(), `in`,          *)
(* startswith) are sequences of one-character strings, so that the string  *)
(* operations are computed and not assumed.                                *)
(***************************************************************************)
EXTENDS Integers, Sequences, FiniteSets, TLC

(***************************************************************************)
(* Bounds of the model.                                                    *)
(***************************************************************************)
\* cap of the process-wide counters (train(ddl=...) calls, initialize() runs)
MaxCount == 2
\* number of client instances constructed for direct use in one behaviour
MaxInstances == 2
\* longest schema_contexts list built by direct initialize() calls
MaxContexts == 5

(***************************************************************************)
(* Notation.                                                               *)
(***************************************************************************)
\* the element of a one-element set.  the({e(x) : x \in {v}}) is e(v) with
\* v computed once: the way a local variable of the code is written here
the(S) == CHOOSE x \in S : TRUE

(***************************************************************************)
(* Python string operations.                                               *)
(***************************************************************************)
UpperChars ==
    <<"A", "B", "C", "D", "E", "F", "G", "H", "I", "J", "K", "L", "M",
      "N", "O", "P", "Q", "R", "S", "T", "U", "V", "W", "X", "Y", "Z">>

LowerChars ==
    <<"a", "b", "c", "d", "e", "f", "g", "h", "i", "j", "k", "l", "m",
      "n", "o", "p", "q", "r", "s", "t", "u", "v", "w", "x", "y", "z">>

\* str.lower() of one character
lower_char(c) ==
    IF \E i \in 1..26 : UpperChars[i] = c
    THEN LowerChars[CHOOSE i \in 1..26 : UpperChars[i] = c]
    ELSE c

\* str.lower()
lower(s) == [i \in 1..Len(s) |-> lower_char(s[i])]

\* the characters str.strip() removes
Whitespace == {" ", "\t", "\n"}

\* str.strip()
strip(s) ==
    IF \A i \in 1..Len(s) : s[i] \in Whitespace
    THEN <<>>
    ELSE LET first == CHOOSE i \in 1..Len(s) :
                         /\ s[i] \notin Whitespace
                         /\ \A j \in 1..(i - 1) : s[j] \in Whitespace
             last  == CHOOSE i \in 1..Len(s) :
                         /\ s[i] \notin Whitespace
                         /\ \A j \in (i + 1)..Len(s) : s[j] \in Whitespace
         IN  SubSeq(s, first, last)

\* `sub in s` as it would be if only the start of s were compared
contains_at_start(sub, s) ==
    /\ Len(sub) <= Len(s)
    /\ \A i \in 1..Len(sub) : s[i] = sub[i]

\* Python `sub in s` for strings
contains(sub, s) ==
    \E k \in 0..(Len(s) - Len(sub)) :
        \A i \in 1..Len(sub) : s[k + i] = sub[i]

\* str.startswith(prefix)
startswith(s, prefix) ==
    /\ Len(prefix) <= Len(s)
    /\ \A i \in 1..Len(prefix) : s[i] = prefix[i]

(***************************************************************************)
(* The relational database the schema is read from: a list of tables in    *)
(* sqlite_master order, each with its column names.                        *)
(***************************************************************************)
T_users ==
    [name    |-> <<"u", "s", "e", "r", "s">>,
     columns |-> << <<"i", "d">>,
                   <<"u", "s", "e", "r", "n", "a", "m", "e">>,
                   <<"e", "m", "a", "i", "l">>,
                   <<"c", "r", "e", "a", "t", "e", "d", "_", "a", "t">>,
                   <<"i", "s", "_", "a", "c", "t", "i", "v", "e">> >>]

T_sqlite_sequence ==
    [name    |-> <<"s", "q", "l", "i", "t", "e", "_", "s", "e", "q", "u", "e", "n", "c", "e">>,
     columns |-> << <<"n", "a", "m", "e">>,
                   <<"s", "e", "q">> >>]

T_employees ==
    [name    |-> <<"e", "m", "p", "l", "o", "y", "e", "e", "s">>,
     columns |-> << <<"i", "d">>,
                   <<"f", "i", "r", "s", "t", "_", "n", "a", "m", "e">>,
                   <<"l", "a", "s", "t", "_", "n", "a", "m", "e">>,
                   <<"e", "m", "a", "i", "l">>,
                   <<"d", "e", "p", "a", "r", "t", "m", "e", "n", "t">>,
                   <<"s", "a", "l", "a", "r", "y">>,
                   <<"h", "i", "r", "e", "_", "d", "a", "t", "e">>,
                   <<"c", "r", "e", "a", "t", "e", "d", "_", "a", "t">> >>]

T_sales ==
    [name    |-> <<"s", "a", "l", "e", "s">>,
     columns |-> << <<"i", "d">>,
                   <<"p", "r", "o", "d", "u", "c", "t", "_", "n", "a", "m", "e">>,
                   <<"a", "m", "o", "u", "n", "t">>,
                   <<"s", "a", "l", "e", "_", "d", "a", "t", "e">>,
                   <<"c", "u", "s", "t", "o", "m", "e", "r", "_", "i", "d">>,
                   <<"e", "m", "p", "l", "o", "y", "e", "e", "_", "i", "d">>,
                   <<"c", "r", "e", "a", "t", "e", "d", "_", "a", "t">> >>]

T_orders ==
    [name    |-> <<"o", "r", "d", "e", "r", "s">>,
     columns |-> << <<"i", "d">>,
                   <<"c", "u", "s", "t", "o", "m", "e", "r", "_", "n", "a", "m", "e">>,
                   <<"t", "o", "t", "a", "l", "_", "a", "m", "o", "u", "n", "t">>,
                   <<"s", "t", "a", "t", "u", "s">>,
                   <<"c", "r", "e", "a", "t", "e", "d", "_", "a", "t">>,
                   <<"u", "p", "d", "a", "t", "e", "d", "_", "a", "t">> >>]

\* the schemas the database file can have: the tables DatabaseManager
\* creates (with the sequence table SQLite adds for AUTOINCREMENT), or none
\* when the file was only just created by sqlite3.connect
Databases ==
    { <<T_users, T_sqlite_sequence, T_employees, T_sales, T_orders>>,
      <<>> }

(***************************************************************************)
(* Questions put to the system.                                            *)
(***************************************************************************)
Q_ShowAllEmployees ==
    <<"S", "h", "o", "w", " ", "m", "e", " ", "a", "l", "l", " ", "e", "m", "p", "l", "o", "y", "e", "e", "s">>

Q_UpperAverage ==
    <<"A", "L", "L", " ", "E", "M", "P", "L", "O", "Y", "E", "E", "S", " ", "a", "v", "e", "r", "a", "g", "e", " ", "s", "a", "l", "a", "r", "y">>

Q_Valid ==
    <<"i", "s", " ", "i", "t", " ", "v", "a", "l", "i", "d">>

Q_TotalOrders ==
    <<"T", "O", "T", "A", "L", " ", "o", "f", " ", "o", "r", "d", "e", "r", "s">>

Q_Hello ==
    <<"h", "e", "l", "l", "o">>

Q_Blank ==
    <<" ", "\t", " ">>

\* how many phrases a question put to the pattern fallback is made of
MaxPhrases == 2

\* the phrases such a question is made of: the keywords of the rules in
\* lower and upper case, and words that are no keyword
Phrases ==
    {<<"a", "l", "l">>,
     <<"a", "l", "l", " ", "e", "m", "p", "l", "o", "y", "e", "e", "s">>,
     <<"E", "m", "p", "l", "o", "y", "e", "e", "s", " ", "I", "n", " ", "E", "n", "g", "i", "n", "e", "e", "r", "i", "n", "g">>,
     <<"a", "v", "e", "r", "a", "g", "e", " ", "s", "a", "l", "a", "r", "y">>,
     <<"n", "a", "m", "e", "s", " ", "s", "t", "a", "r", "t", " ", "w", "i", "t", "h">>,
     <<"J", "o", "h", "n">>,
     <<"a", "l", "l", " ", "t", "a", "b", "l", "e", "s">>,
     <<"A", "L", "L", " ", "T", "A", "B", "L", "E", "S">>,
     <<"h", "e", "l", "l", "o">>,
     <<"s", "h", "o", "w">>}

\* " ".join(ps)
RECURSIVE join_phrases(_)
join_phrases(ps) ==
    IF ps = <<>> THEN <<>>
    ELSE IF Len(ps) = 1 THEN ps[1]
    ELSE ps[1] \o <<" ">> \o join_phrases(Tail(ps))

\* the questions put to _generate_sql_from_patterns directly
PatternQuestions ==
    {join_phrases(ps) : ps \in UNION {[1..n -> Phrases] : n \in 0..MaxPhrases}}

\* the questions put to retrieve_relevant_context directly
RetrieveQuestions ==
    {Q_ShowAllEmployees, Q_Valid, Q_TotalOrders, Q_Hello, <<>>}

(***************************************************************************)
(* The vector store collection "database_schema": points keyed by id, each *)
(* with a payload.  A text is kept structured: `format` is the fixed       *)
(* wording of the f-string that rendered it, `table` and `columns` the     *)
(* values substituted into it (sample rows are not modelled).              *)
(***************************************************************************)
EmptyText == [format |-> "", table |-> <<>>, columns |-> <<>>]

\* the value of an id that holds no point
NoPoint == [type |-> "absent", table |-> <<>>, columns |-> <<>>, text |-> EmptyText]

\* payload of one point
Payload(type, table, columns, text) ==
    [type |-> type, table |-> table, columns |-> columns, text |-> text]

\* the six points fix_rag_context_issue.improve_schema_data uploads
improved_points ==
    (1 :> Payload("table_schema", <<"u", "s", "e", "r", "s">>, << <<"i", "d">>, <<"u", "s", "e", "r", "n", "a", "m", "e">>, <<"e", "m", "a", "i", "l">>, <<"c", "r", "e", "a", "t", "e", "d", "_", "a", "t">> >>,
                  [format |-> "Table: /Description: /Columns: /Key fields: ",
                   table |-> <<"u", "s", "e", "r", "s">>, columns |-> << <<"i", "d">>, <<"u", "s", "e", "r", "n", "a", "m", "e">>, <<"e", "m", "a", "i", "l">>, <<"c", "r", "e", "a", "t", "e", "d", "_", "a", "t">> >>])) @@
    (2 :> Payload("table_schema", <<"e", "m", "p", "l", "o", "y", "e", "e", "s">>, << <<"i", "d">>, <<"f", "i", "r", "s", "t", "_", "n", "a", "m", "e">>, <<"l", "a", "s", "t", "_", "n", "a", "m", "e">>, <<"d", "e", "p", "a", "r", "t", "m", "e", "n", "t">>, <<"s", "a", "l", "a", "r", "y">> >>,
                  [format |-> "Table: /Description: /Columns: /Key fields: ",
                   table |-> <<"e", "m", "p", "l", "o", "y", "e", "e", "s">>, columns |-> << <<"i", "d">>, <<"f", "i", "r", "s", "t", "_", "n", "a", "m", "e">>, <<"l", "a", "s", "t", "_", "n", "a", "m", "e">>, <<"d", "e", "p", "a", "r", "t", "m", "e", "n", "t">>, <<"s", "a", "l", "a", "r", "y">> >>])) @@
    (3 :> Payload("table_schema", <<"s", "a", "l", "e", "s">>, << <<"i", "d">>, <<"c", "u", "s", "t", "o", "m", "e", "r", "_", "i", "d">>, <<"a", "m", "o", "u", "n", "t">>, <<"s", "a", "l", "e", "_", "d", "a", "t", "e">>, <<"e", "m", "p", "l", "o", "y", "e", "e", "_", "i", "d">> >>,
                  [format |-> "Table: /Description: /Columns: /Key fields: ",
                   table |-> <<"s", "a", "l", "e", "s">>, columns |-> << <<"i", "d">>, <<"c", "u", "s", "t", "o", "m", "e", "r", "_", "i", "d">>, <<"a", "m", "o", "u", "n", "t">>, <<"s", "a", "l", "e", "_", "d", "a", "t", "e">>, <<"e", "m", "p", "l", "o", "y", "e", "e", "_", "i", "d">> >>])) @@
    (4 :> Payload("table_schema", <<"o", "r", "d", "e", "r", "s">>, << <<"i", "d">>, <<"c", "u", "s", "t", "o", "m", "e", "r", "_", "n", "a", "m", "e">>, <<"t", "o", "t", "a", "l", "_", "a", "m", "o", "u", "n", "t">>, <<"o", "r", "d", "e", "r", "_", "d", "a", "t", "e">>, <<"s", "t", "a", "t", "u", "s">> >>,
                  [format |-> "Table: /Description: /Columns: /Key fields: ",
                   table |-> <<"o", "r", "d", "e", "r", "s">>, columns |-> << <<"i", "d">>, <<"c", "u", "s", "t", "o", "m", "e", "r", "_", "n", "a", "m", "e">>, <<"t", "o", "t", "a", "l", "_", "a", "m", "o", "u", "n", "t">>, <<"o", "r", "d", "e", "r", "_", "d", "a", "t", "e">>, <<"s", "t", "a", "t", "u", "s">> >>])) @@
    (5 :> Payload("relationships", <<"r", "e", "l", "a", "t", "i", "o", "n", "s", "h", "i", "p", "s">>, <<>>,
                  [format |-> "Database Relationships:",
                   table |-> <<>>, columns |-> <<>>])) @@
    (6 :> Payload("query_patterns", <<"p", "a", "t", "t", "e", "r", "n", "s">>, <<>>,
                  [format |-> "Common Query Patterns:",
                   table |-> <<>>, columns |-> <<>>]))

\* ids a point can have
PointIds == 1..13

\* the points present in a store, in scroll (id) order
stored_ids(pts) == {i \in PointIds : pts[i] # NoPoint}

\* text.startswith("Table: ") and "Description:" in text
is_table_text(text) ==
    text.format \in {"Table: /Description: /Columns: /Key fields: ",
                     "Table: /Description: /Columns: /Indexes: /Sample Data: /Key Fields: ",
                     "Table: /Description: /Columns: "}

\* a set of integers as the ascending sequence
ascending(S) ==
    [i \in 1..Cardinality(S) |->
        CHOOSE x \in S : Cardinality({y \in S : y < x}) = i - 1]

\* qdrant scroll as it would be if a page never held more than three points
scroll_short(pts, limit) ==
    LET ids == ascending(stored_ids(pts))
    IN  [i \in 1..(IF Len(ids) < 3 THEN Len(ids) ELSE 3) |->
            [id |-> ids[i], payload |-> pts[ids[i]]]]

\* qdrant scroll(limit): the first `limit` points in id order
scroll(pts, limit) ==
    LET ids == ascending(stored_ids(pts))
    IN  [i \in 1..(IF Len(ids) < limit THEN Len(ids) ELSE limit) |->
            [id |-> ids[i], payload |-> pts[ids[i]]]]

(***************************************************************************)
(* EnhancedRAGSystem.  An instance is the record                           *)
(*   [is_available, vector_db, schema_contexts]                            *)
(* where vector_db is TRUE once a QdrantClient object has been assigned.   *)
(***************************************************************************)
\* EnhancedRAGSystem.__init__
EnhancedRAGSystem_init ==
    [is_available |-> FALSE, vector_db |-> FALSE, schema_contexts |-> <<>>]

\* _generate_table_description (the sample-data suffix is not modelled)
generate_table_description(table_name, columns) ==
    [format |-> "Table '' with columns: ", table |-> table_name, columns |-> columns]

\* the SchemaContext built for one table
SchemaContext(t) ==
    [table_name  |-> t.name,
     columns     |-> t.columns,
     description |-> generate_table_description(t.name, t.columns)]

\* the tables of db[1..k] that the loop does not skip
extracted_tables(db, k) ==
    SelectSeq(SubSeq(db, 1, k),
              LAMBDA t : ~startswith(t.name, <<"s", "q", "l", "i", "t", "e", "_">>))

\* where _extract_schema_info is made to fail: nowhere, at the metadata query
\* of the third table listed, or when connecting or listing the tables
FailPoints(db) == {0, Len(db) + 1} \cup {i \in {3} : i <= Len(db)}

\* _extract_schema_info raises: see FailPoints; sqlite_ tables are skipped
\* before their metadata is queried
extract_raises(db, failAt) ==
    \/ failAt = Len(db) + 1
    \/ /\ failAt \in 1..Len(db)
       /\ ~startswith(db[failAt].name, <<"s", "q", "l", "i", "t", "e", "_">>)

\* how many of the listed tables _extract_schema_info gets through
tables_read(db, failAt) ==
    IF ~extract_raises(db, failAt) THEN Len(db)
    ELSE IF failAt = Len(db) + 1 THEN 0
    ELSE failAt - 1

\* _extract_schema_info: appends one SchemaContext per table to
\* schema_contexts; a failure re-raises after the appends made so far
extract_schema_info(contexts, db, failAt) ==
    the({[schema_contexts |-> contexts \o [i \in 1..Len(done) |-> SchemaContext(done[i])],
          raised          |-> extract_raises(db, failAt)] :
            done \in {extracted_tables(db, tables_read(db, failAt))}})

\* EnhancedRAGSystem.initialize as it would be if a store that does not
\* answer were not treated as a failure
EnhancedRAGSystem_initialize_lenient(rag, up, exists, db, failAt) ==
    the({[rag |-> [is_available    |-> ~x.raised,
                   vector_db       |-> TRUE,
                   schema_contexts |-> x.schema_contexts],
          ok  |-> ~x.raised] :
            x \in {extract_schema_info(rag.schema_contexts, db, failAt)}})

\* EnhancedRAGSystem.initialize.  up: the store answers get_collections and
\* get_collection; exists: the collection is listed.
EnhancedRAGSystem_initialize(rag, up, exists, db, failAt) ==
    IF ~up
    THEN [rag |-> [rag EXCEPT !.vector_db = TRUE, !.is_available = FALSE],
          ok  |-> FALSE]
    ELSE IF ~exists
    THEN [rag |-> [rag EXCEPT !.vector_db = TRUE], ok |-> FALSE]
    ELSE the({[rag |-> [is_available    |-> ~x.raised,
                        vector_db       |-> TRUE,
                        schema_contexts |-> x.schema_contexts],
               ok  |-> ~x.raised] :
                 x \in {extract_schema_info(rag.schema_contexts, db, failAt)}})

\* _fallback_context_retrieval: the descriptions of the known tables whose
\* name or one of whose columns occurs in the lowercased question
fallback_context_retrieval(rag, question) ==
    LET question_lower == lower(question)
        hit(c) == \/ contains(lower(c.table_name), question_lower)
                  \/ \E i \in 1..Len(c.columns) :
                         contains(lower(c.columns[i]), question_lower)
        sel == SelectSeq(rag.schema_contexts, hit)
    IN  [i \in 1..Len(sel) |-> [type |-> "", text |-> sel[i].description]]

\* scores (in thousandths) the store can give a point for a query vector
Scores == {10, 500}

\* the sets of points given the high score in the scorings the model tries
HighSets == {{}, PointIds, {5, 6}}

\* the outcomes of vector_db.search on a store: an error, or a score per
\* stored point (all vectors are non-negative, so every point passes
\* score_threshold=0.0)
search_outcomes(pts, callable) ==
    {[ok |-> FALSE, scoring |-> <<>>]} \cup
    (IF callable
     THEN {[ok |-> TRUE,
            scoring |-> [i \in stored_ids(pts) |-> IF i \in H THEN 500 ELSE 10]] :
              H \in HighSets}
     ELSE {})

\* search results in descending score order, at most `limit` of them
search(pts, scoring, limit) ==
    LET ids  == stored_ids(pts)
        rank(i) == Cardinality({j \in ids : \/ scoring[j] > scoring[i]
                                            \/ scoring[j] = scoring[i] /\ j < i})
        n    == IF Cardinality(ids) < limit THEN Cardinality(ids) ELSE limit
    IN  [k \in 1..n |->
            LET i == CHOOSE i \in ids : rank(i) = k - 1
            IN  [id |-> i, score |-> scoring[i], payload |-> pts[i]]]

\* the search results retrieve_relevant_context keeps: score above 0.01
\* and a non-empty text
usable_results(pts, scoring) ==
    SelectSeq(search(pts, scoring, 10),
              LAMBDA r : r.score > 10 /\ r.payload.text # EmptyText)

\* the scroll fallback as it would be without the test of the point type
scrolled_schema_untyped(pts) ==
    SelectSeq(scroll(pts, 100), LAMBDA p : p.payload.text # EmptyText)

\* the table_schema points with a text among the first 100 of a scroll
scrolled_schema(pts) ==
    SelectSeq(scroll(pts, 100),
              LAMBDA p : /\ p.payload.type = "table_schema"
                         /\ p.payload.text # EmptyText)

\* the contexts built from the search results kept
found_contexts(usable) ==
    [i \in 1..Len(usable) |->
        [type |-> usable[i].payload.type, text |-> usable[i].payload.text]]

\* the contexts built from the scrolled table_schema points
schema_contexts_of(all_points) ==
    [i \in 1..Len(all_points) |->
        [type |-> "table_schema", text |-> all_points[i].payload.text]]

\* retrieve_relevant_context as it would be if the scroll call were made
\* outside the try block
retrieve_relevant_context_scroll_uncaught(rag, question, pts, searched, scrollOk) ==
    IF ~rag.is_available \/ ~rag.vector_db
    THEN [raised |-> FALSE, contexts |-> fallback_context_retrieval(rag, question)]
    ELSE IF ~searched.ok
    THEN [raised |-> FALSE, contexts |-> fallback_context_retrieval(rag, question)]
    ELSE the({IF usable # <<>>
              THEN [raised |-> FALSE, contexts |-> found_contexts(usable)]
              ELSE IF ~scrollOk
              THEN [raised |-> TRUE, contexts |-> <<>>]
              ELSE [raised   |-> FALSE,
                    contexts |-> schema_contexts_of(scrolled_schema(pts))] :
                usable \in {usable_results(pts, searched.scoring)}})

\* retrieve_relevant_context.  searched: outcome of the search call;
\* scrollOk: whether the scroll call answers.  Every exception of the search
\* and scroll calls is caught and answered with the text-matching fallback.
retrieve_relevant_context(rag, question, pts, searched, scrollOk) ==
    IF ~rag.is_available \/ ~rag.vector_db
    THEN [raised |-> FALSE, contexts |-> fallback_context_retrieval(rag, question)]
    ELSE IF ~searched.ok
    THEN [raised |-> FALSE, contexts |-> fallback_context_retrieval(rag, question)]
    ELSE the({IF usable # <<>>
              THEN [raised |-> FALSE, contexts |-> found_contexts(usable)]
              ELSE IF ~scrollOk
              THEN [raised   |-> FALSE,
                    contexts |-> fallback_context_retrieval(rag, question)]
              ELSE [raised   |-> FALSE,
                    contexts |-> schema_contexts_of(scrolled_schema(pts))] :
                usable \in {usable_results(pts, searched.scoring)}})

\* enhance_question: the question, or the prompt built around the contexts;
\* an exception of the retrieval is caught and the question returned
enhance_question(rag, question, pts, searched, scrollOk) ==
    IF ~rag.is_available
    THEN [question |-> question, contexts |-> <<>>]
    ELSE the({[question |-> question,
               contexts |-> IF r.raised THEN <<>> ELSE r.contexts] :
                 r \in {retrieve_relevant_context(rag, question, pts, searched, scrollOk)}})

(***************************************************************************)
(* VannaClientRepository.  An instance is the record                       *)
(*   [vanna_client, api_key_set, rag_initialized, rag]                     *)
(* where vanna_client is TRUE when a VannaDefault object was constructed.  *)
(***************************************************************************)
\* VannaClientRepository.__init__; constructed: VannaDefault(...) did not raise
VannaClientRepository_init(constructed) ==
    [vanna_client    |-> constructed,
     api_key_set     |-> constructed,
     rag_initialized |-> FALSE,
     rag             |-> EnhancedRAGSystem_init]

\* the templates of the pattern fallback
SQL_all_employees ==
    <<"S", "E", "L", "E", "C", "T", " ", "*", " ", "F", "R", "O", "M", " ", "e", "m", "p", "l", "o", "y", "e", "e", "s">>

SQL_engineering ==
    <<"S", "E", "L", "E", "C", "T", " ", "*", " ", "F", "R", "O", "M", " ", "e", "m", "p", "l", "o", "y", "e", "e", "s", " ", "W", "H", "E", "R", "E", " ", "d", "e", "p", "a", "r", "t", "m", "e", "n", "t", " ", "=", " ", "'", "E", "n", "g", "i", "n", "e", "e", "r", "i", "n", "g", "'">>

SQL_average_salary ==
    <<"S", "E", "L", "E", "C", "T", " ", "d", "e", "p", "a", "r", "t", "m", "e", "n", "t", ",", " ", "A", "V", "G", "(", "s", "a", "l", "a", "r", "y", ")", " ", "a", "s", " ", "a", "v", "e", "r", "a", "g", "e", "_", "s", "a", "l", "a", "r", "y", " ", "F", "R", "O", "M", " ", "e", "m", "p", "l", "o", "y", "e", "e", "s", " ", "G", "R", "O", "U", "P", " ", "B", "Y", " ", "d", "e", "p", "a", "r", "t", "m", "e", "n", "t">>

SQL_names_j ==
    <<"S", "E", "L", "E", "C", "T", " ", "*", " ", "F", "R", "O", "M", " ", "e", "m", "p", "l", "o", "y", "e", "e", "s", " ", "W", "H", "E", "R", "E", " ", "f", "i", "r", "s", "t", "_", "n", "a", "m", "e", " ", "L", "I", "K", "E", " ", "'", "J", "%", "'">>

SQL_all_tables ==
    <<"S", "E", "L", "E", "C", "T", " ", "n", "a", "m", "e", " ", "F", "R", "O", "M", " ", "s", "q", "l", "i", "t", "e", "_", "m", "a", "s", "t", "e", "r", " ", "W", "H", "E", "R", "E", " ", "t", "y", "p", "e", "=", "'", "t", "a", "b", "l", "e", "'">>

\* _generate_sql_from_patterns as it would be if the question were matched
\* without lowercasing it
generate_sql_from_patterns_unlowered(question) ==
    IF contains(<<"a", "l", "l", " ", "e", "m", "p", "l", "o", "y", "e", "e", "s">>, question)
    THEN SQL_all_employees
    ELSE IF contains(<<"e", "m", "p", "l", "o", "y", "e", "e", "s", " ", "i", "n", " ", "e", "n", "g", "i", "n", "e", "e", "r", "i", "n", "g">>, question)
    THEN SQL_engineering
    ELSE IF contains(<<"a", "v", "e", "r", "a", "g", "e", " ", "s", "a", "l", "a", "r", "y">>, question)
    THEN SQL_average_salary
    ELSE IF contains(<<"n", "a", "m", "e", "s", " ", "s", "t", "a", "r", "t", " ", "w", "i", "t", "h">>, question) /\ contains(<<"j">>, question)
    THEN SQL_names_j
    ELSE IF contains(<<"a", "l", "l", " ", "t", "a", "b", "l", "e", "s">>, question)
    THEN SQL_all_tables
    ELSE SQL_all_employees

\* _generate_sql_from_patterns
generate_sql_from_patterns(question) ==
    LET question_lower == lower(question)
    IN  IF contains(<<"a", "l", "l", " ", "e", "m", "p", "l", "o", "y", "e", "e", "s">>, question_lower)
        THEN SQL_all_employees
        ELSE IF contains(<<"e", "m", "p", "l", "o", "y", "e", "e", "s", " ", "i", "n", " ", "e", "n", "g", "i", "n", "e", "e", "r", "i", "n", "g">>, question_lower)
        THEN SQL_engineering
        ELSE IF contains(<<"a", "v", "e", "r", "a", "g", "e", " ", "s", "a", "l", "a", "r", "y">>, question_lower)
        THEN SQL_average_salary
        ELSE IF /\ contains(<<"n", "a", "m", "e", "s", " ", "s", "t", "a", "r", "t", " ", "w", "i", "t", "h">>, question_lower)
                /\ contains(<<"j">>, question_lower)
        THEN SQL_names_j
        ELSE IF contains(<<"a", "l", "l", " ", "t", "a", "b", "l", "e", "s">>, question_lower)
        THEN SQL_all_tables
        ELSE SQL_all_employees

\* get_schema_context raises: system or store not available, the scroll
\* fails, or no point carries a table description
get_schema_context_raises(rag, pts, scrollOk) ==
    \/ ~rag.is_available
    \/ ~rag.vector_db
    \/ ~scrollOk
    \/ LET all_points == scroll(pts, 100)
       IN  \A i \in 1..Len(all_points) : ~is_table_text(all_points[i].payload.text)

\* _train_vanna_model: the numbers of train(ddl=...) and train(question=...,
\* sql=...) calls it issues and its return value.  serviceUp: train calls
\* to the generation service succeed.
train_vanna_model(client, pts, scrollOk, serviceUp) ==
    IF ~client.vanna_client
    THEN [ok |-> FALSE, ddl |-> 0, examples |-> 0]
    ELSE IF get_schema_context_raises(client.rag, pts, scrollOk)
    THEN [ok |-> FALSE, ddl |-> 0, examples |-> 0]
    ELSE IF ~serviceUp
    THEN [ok |-> FALSE, ddl |-> 1, examples |-> 0]
    ELSE [ok |-> TRUE, ddl |-> 1, examples |-> 10]

\* what vanna_client.ask can do: raise, or return None, a str, a tuple
\* (empty, or with a first element that is None or renders to val), or a
\* value of another type
AskResults ==
    {[kind |-> k, val |-> <<>>] :
        k \in {"raise", "none", "other", "tuple_empty", "tuple_none"}} \cup
    {[kind |-> k, val |-> v] :
        k \in {"str", "tuple"},
        v \in {<<>>, <<" ">>, <<"S", "E", "L", "E", "C", "T", " ", "1">>, <<" ", "S", "E", "L", "E", "C", "T", " ", "1", " ">>}}

\* the outcomes of one ask call
ask_outcomes(serviceUp) ==
    IF serviceUp THEN AskResults ELSE {[kind |-> "raise", val |-> <<>>]}

\* the response handling as it would be if a str were accepted untrimmed
handle_response_unstripped(result) ==
    IF result.kind = "str" /\ result.val # <<>>
    THEN [raised |-> FALSE, sql |-> strip(result.val)]
    ELSE IF result.kind = "tuple" /\ strip(result.val) # <<>>
    THEN [raised |-> FALSE, sql |-> strip(result.val)]
    ELSE [raised |-> TRUE, sql |-> <<>>]

\* the response handling of _generate_sql_with_vanna_rag (lines 253-273):
\* the SQL it returns, or that it raises
handle_response(result) ==
    IF result.kind = "str" /\ strip(result.val) # <<>>
    THEN [raised |-> FALSE, sql |-> strip(result.val)]
    ELSE IF result.kind = "tuple" /\ strip(result.val) # <<>>
    THEN [raised |-> FALSE, sql |-> strip(result.val)]
    ELSE [raised |-> TRUE, sql |-> <<>>]

\* the instance after initialize() returned r: the flag takes its result
initialized_client(client, r) ==
    [client EXCEPT !.rag = r.rag, !.rag_initialized = r.ok]

\* The lazy initialisation of _generate_sql_with_vanna_rag (lines 224-235).
lazy_rag_init(client, in, db, pts) ==
    IF client.rag_initialized
    THEN [client |-> client, inits |-> 0, ddl |-> 0, examples |-> 0]
    ELSE the({IF ~r.ok
              THEN [client |-> initialized_client(client, r),
                    inits |-> 1, ddl |-> 0, examples |-> 0]
              ELSE the({[client |-> initialized_client(client, r),
                         inits |-> 1, ddl |-> tr.ddl, examples |-> tr.examples] :
                           tr \in {train_vanna_model(initialized_client(client, r), pts,
                                                     in.trainScroll, in.serviceUp)}}) :
                r \in {EnhancedRAGSystem_initialize(client.rag, in.up, in.exists,
                                                    db, in.failAt)}})

\* the question put to ask: enhanced when the RAG system is ready
ask_prompt(c, question, in, pts) ==
    IF c.rag_initialized /\ c.rag.is_available
    THEN enhance_question(c.rag, question, pts, in.searched, in.scrollOk)
    ELSE [question |-> question, contexts |-> <<>>]

\* what becomes of the result of ask
ask_result(ask) ==
    IF ask.kind = "raise"
    THEN [raised |-> TRUE, sql |-> <<>>]
    ELSE handle_response(ask)

\* _generate_sql_with_vanna_rag
generate_sql_with_vanna_rag(client, question, in, db, pts) ==
    IF ~client.vanna_client
    THEN [client |-> client, raised |-> TRUE, sql |-> <<>>, asked |-> FALSE,
          prompt |-> [question |-> question, contexts |-> <<>>],
          inits |-> 0, ddl |-> 0, examples |-> 0]
    ELSE the({[client |-> z.client, raised |-> h.raised, sql |-> h.sql,
               asked |-> TRUE,
               prompt |-> ask_prompt(z.client, question, in, pts),
               inits |-> z.inits, ddl |-> z.ddl, examples |-> z.examples] :
                 z \in {lazy_rag_init(client, in, db, pts)},
                 h \in {ask_result(in.ask)}})

\* _generate_sql_with_rag_only (the enhanced question it builds is only logged)
generate_sql_with_rag_only(client, question) ==
    IF ~client.rag_initialized \/ ~client.rag.is_available
    THEN [raised |-> TRUE, sql |-> <<>>]
    ELSE [raised |-> FALSE, sql |-> strip(generate_sql_from_patterns(question))]

\* the ensure-ready step as it would be if the flag were not consulted
ensure_ready_unguarded(client, in, db, pts) ==
    the({IF ~r.ok
         THEN [client |-> initialized_client(client, r),
               error |-> "Cannot proceed without RAG system",
               inits |-> 1, ddl |-> 0, examples |-> 0]
         ELSE the({[client |-> initialized_client(client, r), error |-> "",
                    inits |-> 1, ddl |-> tr.ddl, examples |-> tr.examples] :
                      tr \in {train_vanna_model(initialized_client(client, r), pts,
                                                in.trainScroll, in.serviceUp)}}) :
           r \in {EnhancedRAGSystem_initialize(client.rag, in.up, in.exists,
                                               db, in.failAt)}})

\* the ensure-ready step of generate_sql (lines 343-362): initialise the RAG
\* system and train when the flag is unset, refuse when it is set
ensure_ready(client, in, db, pts) ==
    IF client.rag_initialized
    THEN [client |-> client, error |-> "RAG system not available",
          inits |-> 0, ddl |-> 0, examples |-> 0]
    ELSE the({IF ~r.ok
              THEN [client |-> initialized_client(client, r),
                    error |-> "Cannot proceed without RAG system",
                    inits |-> 1, ddl |-> 0, examples |-> 0]
              ELSE the({[client |-> initialized_client(client, r), error |-> "",
                         inits |-> 1, ddl |-> tr.ddl, examples |-> tr.examples] :
                           tr \in {train_vanna_model(initialized_client(client, r), pts,
                                                     in.trainScroll, in.serviceUp)}}) :
                r \in {EnhancedRAGSystem_initialize(client.rag, in.up, in.exists,
                                                    db, in.failAt)}})

\* the generation step of generate_sql (lines 364-377): the primary path,
\* then the pattern fallback
generate_with_fallback(client, question, in, db, pts) ==
    the({IF ~g.raised
         THEN [client |-> g.client, raised |-> FALSE, error |-> "",
               sql |-> strip(g.sql), path |-> "primary", primary |-> "succeeded",
               inits |-> g.inits, ddl |-> g.ddl, examples |-> g.examples]
         ELSE the({[client |-> g.client, raised |-> f.raised,
                    error |-> IF f.raised THEN "RAG system not available" ELSE "",
                    sql |-> IF f.raised THEN <<>> ELSE strip(f.sql),
                    path |-> IF f.raised THEN "none" ELSE "fallback",
                    primary |-> "failed",
                    inits |-> g.inits, ddl |-> g.ddl, examples |-> g.examples] :
                      f \in {generate_sql_with_rag_only(g.client, question)}}) :
           g \in {generate_sql_with_vanna_rag(client, question, in, db, pts)}})

\* VannaClientRepository.generate_sql as it would be if a failed
\* ensure-ready step were only logged and generation went on
VannaClientRepository_generate_sql_lenient(client, question, in, db, pts) ==
    IF ~client.vanna_client \/ ~client.api_key_set
    THEN [client |-> client, raised |-> TRUE, wrapped |-> FALSE,
          error |-> "Vanna AI client not available", sql |-> <<>>,
          path |-> "none", primary |-> "not run",
          inits |-> 0, ddl |-> 0, examples |-> 0]
    ELSE the({the({[client |-> g.client, raised |-> g.raised,
                    wrapped |-> g.raised,
                    error |-> g.error, sql |-> g.sql,
                    path |-> g.path, primary |-> g.primary,
                    inits |-> e.inits + g.inits, ddl |-> e.ddl + g.ddl,
                    examples |-> e.examples + g.examples] :
                      g \in {generate_with_fallback(e.client, question, in, db, pts)}}) :
                e \in {ensure_ready(client, in, db, pts)}})

\* VannaClientRepository.generate_sql; an exception raised inside its try
\* block leaves as RuntimeError("Failed to generate SQL: ...")
VannaClientRepository_generate_sql(client, question, in, db, pts) ==
    IF ~client.vanna_client \/ ~client.api_key_set
    THEN [client |-> client, raised |-> TRUE, wrapped |-> FALSE,
          error |-> "Vanna AI client not available", sql |-> <<>>,
          path |-> "none", primary |-> "not run",
          inits |-> 0, ddl |-> 0, examples |-> 0]
    ELSE the({IF e.error # ""
              THEN [client |-> e.client, raised |-> TRUE, wrapped |-> TRUE,
                    error |-> e.error, sql |-> <<>>,
                    path |-> "none", primary |-> "not run",
                    inits |-> e.inits, ddl |-> e.ddl, examples |-> e.examples]
              ELSE the({[client |-> g.client, raised |-> g.raised,
                         wrapped |-> g.raised,
                         error |-> g.error, sql |-> g.sql,
                         path |-> g.path, primary |-> g.primary,
                         inits |-> e.inits + g.inits, ddl |-> e.ddl + g.ddl,
                         examples |-> e.examples + g.examples] :
                           g \in {generate_with_fallback(e.client, question, in, db, pts)}}) :
                e \in {ensure_ready(client, in, db, pts)}})

(***************************************************************************)
(* Domain entities, ProcessQueryUseCase and the POST /query route.         *)
(***************************************************************************)
\* QueryRequest.__post_init__ as it would be without the strip() test
QueryRequest_invalid_unstripped(question) ==
    question = <<>>

\* QueryRequest.__post_init__ raises ValueError("Question cannot be empty")
QueryRequest_invalid(question) ==
    question = <<>> \/ strip(question) = <<>>

\* QueryResponse.__post_init__ raises ValueError("SQL query cannot be empty")
\* (execution time and row count are never negative in the use case)
QueryResponse_invalid(sql_query, error_message) ==
    sql_query = <<>> \/ strip(sql_query) = <<>>

\* ProcessQueryUseCase.execute on fresh repositories.  gen: the result of
\* vanna_repo.generate_sql (evaluated only when the request is valid);
\* execOk: db_repo.execute_query returns rows.
\* `raised` is the exception class leaving execute ("" when it returns).
ProcessQueryUseCase_execute(question, gen, execOk) ==
    IF QueryRequest_invalid(question)
    THEN [raised |-> "ValueError", message |-> "Question cannot be empty",
          query_saved |-> FALSE, generate_called |-> FALSE, executed |-> FALSE,
          response_saved |-> "none", sql_query |-> <<>>, error_message |-> ""]
    ELSE IF ~gen.raised /\ execOk /\ ~QueryResponse_invalid(gen.sql, "")
    THEN [raised |-> "", message |-> "",
          query_saved |-> TRUE, generate_called |-> TRUE, executed |-> TRUE,
          response_saved |-> "response", sql_query |-> gen.sql, error_message |-> ""]
    ELSE LET cause == IF gen.raised THEN gen.error
                      ELSE IF ~execOk THEN "Query execution failed"
                      ELSE "SQL query cannot be empty"
         IN  IF QueryResponse_invalid(<<>>, cause)
             THEN [raised |-> "ValueError", message |-> "SQL query cannot be empty",
                   query_saved |-> TRUE, generate_called |-> TRUE,
                   executed |-> ~gen.raised,
                   response_saved |-> "none", sql_query |-> <<>>, error_message |-> ""]
             ELSE [raised |-> "RuntimeError", message |-> cause,
                   query_saved |-> TRUE, generate_called |-> TRUE,
                   executed |-> ~gen.raised,
                   response_saved |-> "error", sql_query |-> <<>>,
                   error_message |-> cause]

\* the except clauses of process_query: the HTTP status of the reply
http_status(raised) ==
    IF raised = "" THEN 200
    ELSE IF raised = "ValueError" THEN 400
    ELSE 500

(***************************************************************************)
(* RealSchemaExtractor (src/real_schema_extractor.py), the indexer that    *)
(* writes one table_schema point per table, and the corrective upload of   *)
(* src/fix_schema_mismatch.py.                                             *)
(***************************************************************************)
\* a table DatabaseManager does not create
T_customers ==
    [name    |-> <<"c", "u", "s", "t", "o", "m", "e", "r", "s">>,
     columns |-> << <<"i", "d">>,
                   <<"n", "a", "m", "e">> >>]

\* the schemas the indexed database goes through: the one DatabaseManager
\* creates, a later one with three tables dropped and one added, and the
\* one of a file sqlite3.connect has only just created
IndexDatabases ==
    { <<T_users, T_sqlite_sequence, T_employees, T_sales, T_orders>>,
      <<T_sqlite_sequence, T_employees, T_customers>>,
      <<>> }

\* values hash(table_name) % 1000 takes for a name outside the id table:
\* str hashes are salted per interpreter process, so the value differs from
\* one process to the next and can equal an id of the table
HashIds == {2, 7, 8}

\* _get_table_point_id; h is hash(table_name) % 1000 in the running process
get_table_point_id(table_name, h) ==
    IF table_name = <<"u", "s", "e", "r", "s">> THEN 1
    ELSE IF table_name = <<"e", "m", "p", "l", "o", "y", "e", "e", "s">> THEN 2
    ELSE IF table_name = <<"s", "a", "l", "e", "s">> THEN 3
    ELSE IF table_name = <<"o", "r", "d", "e", "r", "s">> THEN 4
    ELSE h

\* _create_schema_description (index and sample-row wording not modelled)
create_schema_description(t) ==
    [format |-> "Table: /Description: /Columns: /Indexes: /Sample Data: /Key Fields: ",
     table |-> t.name, columns |-> t.columns]

\* _extract_real_database_schema: the descriptors of the tables not skipped,
\* in listing order; any exception while reading makes the result empty
extract_real_database_schema(db, failAt) ==
    IF extract_raises(db, failAt) THEN <<>> ELSE extracted_tables(db, Len(db))

\* _clear_old_schema_data as it would be if only the first table_schema
\* point found were deleted
clear_old_schema_data_first_only(pts, cleared) ==
    IF ~cleared THEN pts
    ELSE the({[i \in PointIds |->
                  IF /\ \E k \in 1..Len(page) :
                          /\ page[k].id = i
                          /\ page[k].payload.type = "table_schema"
                     /\ \A j \in PointIds :
                          (j < i /\ pts[j] # NoPoint) => pts[j].type # "table_schema"
                  THEN NoPoint ELSE pts[i]] :
              page \in {scroll(pts, 1000)}})

\* _clear_old_schema_data: delete the table_schema points of one scroll
\* page; when a store call fails the exception is swallowed and nothing is
\* deleted
clear_old_schema_data(pts, cleared) ==
    IF ~cleared THEN pts
    ELSE the({[i \in PointIds |->
                  IF \E k \in 1..Len(page) :
                        /\ page[k].id = i
                        /\ page[k].payload.type = "table_schema"
                  THEN NoPoint ELSE pts[i]] :
              page \in {scroll(pts, 1000)}})

\* _store_real_schema_in_qdrant: one upsert of one point per descriptor; of
\* two points with one id the later replaces the earlier
store_real_schema_in_qdrant(pts, real_schema, h, upserted) ==
    IF ~upserted THEN pts
    ELSE [i \in PointIds |->
            IF \E k \in 1..Len(real_schema) :
                   get_table_point_id(real_schema[k].name, h) = i
            THEN the({Payload("table_schema", t.name, t.columns,
                              create_schema_description(t)) :
                      t \in {real_schema[CHOOSE k \in 1..Len(real_schema) :
                               /\ get_table_point_id(real_schema[k].name, h) = i
                               /\ \A j \in (k + 1)..Len(real_schema) :
                                     get_table_point_id(real_schema[j].name, h) # i]}})
            ELSE pts[i]]

\* the set of the elements of a sequence
elements(s) == {s[i] : i \in 1..Len(s)}

\* _verify_stored_schema as it would be if a table without a point were
\* passed over
verify_stored_schema_found_only(pts, real_schema, scrolled) ==
    /\ scrolled
    /\ \E page \in {scroll(pts, 1000)} :
        \A k \in 1..Len(real_schema) :
            \A p \in 1..Len(page) :
                (/\ page[p].payload.table = real_schema[k].name
                 /\ page[p].payload.type = "table_schema"
                 /\ \A q \in 1..(p - 1) :
                       ~(/\ page[q].payload.table = real_schema[k].name
                         /\ page[q].payload.type = "table_schema"))
                => elements(page[p].payload.columns) = elements(real_schema[k].columns)

\* _verify_stored_schema: every descriptor has a table_schema point, and
\* the first such point on the scroll page has the same set of columns
verify_stored_schema(pts, real_schema, scrolled) ==
    /\ scrolled
    /\ \E page \in {scroll(pts, 1000)} :
        \A k \in 1..Len(real_schema) :
            \E p \in 1..Len(page) :
                /\ page[p].payload.table = real_schema[k].name
                /\ page[p].payload.type = "table_schema"
                /\ \A q \in 1..(p - 1) :
                      ~(/\ page[q].payload.table = real_schema[k].name
                        /\ page[q].payload.type = "table_schema")
                /\ elements(page[p].payload.columns) = elements(real_schema[k].columns)

\* extract_and_store_real_schema as it would be if the old records were
\* cleared before the extracted schema is looked at
extract_and_store_real_schema_clear_first(pts, db, in) ==
    the({IF real_schema = <<>>
         THEN [points |-> clear_old_schema_data(pts, in.cleared),
               extracted |-> real_schema,
               stored |-> FALSE, returned |-> FALSE]
         ELSE the({[points    |-> after,
                    extracted |-> real_schema,
                    stored    |-> in.upserted,
                    returned  |-> /\ in.upserted
                                  /\ verify_stored_schema(after, real_schema, in.verified)] :
                   after \in {store_real_schema_in_qdrant(
                                  clear_old_schema_data(pts, in.cleared),
                                  real_schema, in.h, in.upserted)}}) :
         real_schema \in {extract_real_database_schema(db, in.failAt)}})

\* extract_and_store_real_schema: [points, extracted, cleared, stored,
\* returned]; `in` says what the collaborators do during the run
extract_and_store_real_schema(pts, db, in) ==
    the({IF real_schema = <<>>
         THEN [points |-> pts, extracted |-> real_schema,
               stored |-> FALSE, returned |-> FALSE]
         ELSE the({[points    |-> after,
                    extracted |-> real_schema,
                    stored    |-> in.upserted,
                    returned  |-> /\ in.upserted
                                  /\ verify_stored_schema(after, real_schema, in.verified)] :
                   after \in {store_real_schema_in_qdrant(
                                  clear_old_schema_data(pts, in.cleared),
                                  real_schema, in.h, in.upserted)}}) :
         real_schema \in {extract_real_database_schema(db, in.failAt)}})

\* the id fix_schema_mismatch gives the corrected point of a table,
\* "table_<name>_corrected", as a number of its own
corrected_point_id(table_name) ==
    IF table_name = <<"u", "s", "e", "r", "s">> THEN 9
    ELSE IF table_name = <<"e", "m", "p", "l", "o", "y", "e", "e", "s">> THEN 10
    ELSE IF table_name = <<"s", "a", "l", "e", "s">> THEN 11
    ELSE IF table_name = <<"o", "r", "d", "e", "r", "s">> THEN 12
    ELSE 13

\* fix_schema_mismatch.update_qdrant_with_correct_schema: upsert one point
\* per table of the actual schema, deleting nothing first; an exception is
\* swallowed
update_qdrant_with_correct_schema(pts, actual_schema, upserted) ==
    IF ~upserted THEN pts
    ELSE [i \in PointIds |->
            IF \E k \in 1..Len(actual_schema) :
                   corrected_point_id(actual_schema[k].name) = i
            THEN the({Payload("table_schema", t.name, t.columns,
                              [format |-> "Table: /Description: /Columns: ",
                               table |-> t.name, columns |-> t.columns]) :
                      t \in {actual_schema[CHOOSE k \in 1..Len(actual_schema) :
                               corrected_point_id(actual_schema[k].name) = i]}})
            ELSE pts[i]]

(***************************************************************************)
(* LocalVannaClientRepository._make_request: one request to the local      *)
(* generation server, repeated after a failure that may pass.              *)
(***************************************************************************)
\* Settings.local_vanna_max_retries, the default of _max_retries
local_vanna_max_retries == 3

\* what one attempt can meet: a JSON answer, httpx.TimeoutException, an
\* HTTPStatusError with a status of 500 or more, one with a lower status,
\* any other exception
ResponseKinds == {"ok", "timeout", "server error", "client error", "failed"}

\* what the server does at each attempt that could be made, one more than
\* the default allows
Responses == [1..(local_vanna_max_retries + 2) -> ResponseKinds]

\* how large a retry budget is looked at
MaxRetries == 2

\* the budgets a request is made with: from Settings, an integer of the
\* environment
Budgets == (-1)..MaxRetries

\* what the server does at each attempt that could be made with a budget
BudgetResponses == [1..(MaxRetries + 2) -> ResponseKinds]

\* the test `attempt == retries` as it would be if it allowed one attempt
\* more
exhausted_one_later(attempt, retries) == attempt = retries + 1

\* `attempt == retries`: the attempt was the last of the budget
exhausted(attempt, retries) == attempt = retries

\* the status test as it would be if no status ended the request
ends_request_never(response) == FALSE

\* an HTTPStatusError with a status below 500 ends the request
ends_request(response) == response = "client error"

\* the loop of _make_request from `attempt` on; waits are the sleeps made
RECURSIVE make_request_from(_, _, _, _)
make_request_from(attempt, responses, retries, waits) ==
    IF responses[attempt + 1] = "ok"
    THEN [raised |-> FALSE, error |-> "", attempts |-> attempt + 1,
          waits |-> waits]
    ELSE IF ends_request(responses[attempt + 1])
    THEN [raised |-> TRUE, error |-> "Client error", attempts |-> attempt + 1,
          waits |-> waits]
    ELSE IF exhausted(attempt, retries)
    THEN [raised |-> TRUE,
          error |-> IF responses[attempt + 1] = "timeout"
                    THEN "Request timeout after attempts"
                    ELSE IF responses[attempt + 1] = "server error"
                    THEN "Server error after attempts"
                    ELSE "Request failed after attempts",
          attempts |-> attempt + 1, waits |-> waits]
    ELSE make_request_from(attempt + 1, responses, retries,
                           Append(waits, 2 ^ attempt))

\* _make_request as it would be if the loop ran once more
make_request_once_more(responses, retries) ==
    make_request_from(0, responses, retries + 1, <<>>)

\* _make_request(endpoint, method, data) with retries given
make_request(responses, retries) ==
    IF retries < 0
    THEN [raised |-> TRUE, error |-> "Unexpected error in request retry logic",
          attempts |-> 0, waits |-> <<>>]
    ELSE make_request_from(0, responses, retries, <<>>)

(***************************************************************************)
(* LocalVannaClientRepository (app/infrastructure/local_vanna_client.py),  *)
(* the client of the local generation server.                              *)
(***************************************************************************)
\* __init__
LocalVannaClientRepository_init ==
    [initialized |-> FALSE, rag_initialized |-> FALSE,
     rag |-> EnhancedRAGSystem_init]

\* _initialize_rag_system: initialize() catches what goes wrong in it and
\* returns False, and its result is not looked at
LocalVannaClientRepository_initialize_rag_system(c, up, exists, db, failAt) ==
    IF c.rag_initialized THEN c
    ELSE [c EXCEPT !.rag = EnhancedRAGSystem_initialize(c.rag, up, exists,
                                                       db, failAt).rag,
                   !.rag_initialized = TRUE]

\* initialize.  healthy: GET /health was answered with a healthy status
LocalVannaClientRepository_initialize(c, healthy, up, exists, db, failAt) ==
    IF ~healthy THEN [client |-> c, ok |-> FALSE]
    ELSE [client |-> [LocalVannaClientRepository_initialize_rag_system(
                          c, up, exists, db, failAt)
                        EXCEPT !.initialized = TRUE],
          ok |-> TRUE]

\* what POST /generate_sql comes to: _make_request raises, the server
\* answers success = false, or it answers with SQL
LocalReplies(serverUp) ==
    {"raise"} \cup (IF serverUp THEN {"failure", "sql"} ELSE {})

\* generate_sql.  in: healthy, up, failAt for initialize(), searched and
\* scrollOk for the retrieval, reply for the request
LocalVannaClientRepository_generate_sql(c, question, in, exists, db, pts) ==
    IF ~c.initialized /\ ~in.healthy
    THEN [client |-> c, raised |-> TRUE,
          error |-> "Local Vanna client not initialized",
          contexts |-> <<>>, sql |-> <<>>]
    ELSE the({[client   |-> c1,
               raised   |-> in.reply # "sql",
               error    |-> IF in.reply = "raise" THEN "request failed"
                            ELSE IF in.reply = "failure"
                            THEN "SQL generation failed" ELSE "",
               contexts |-> IF c1.rag_initialized
                            THEN retrieve_relevant_context(
                                     c1.rag, question, pts, in.searched,
                                     in.scrollOk).contexts
                            ELSE <<>>,
               sql      |-> IF in.reply = "sql" THEN SQL_all_employees
                            ELSE <<>>] :
                c1 \in {IF c.initialized THEN c
                        ELSE LocalVannaClientRepository_initialize(
                                 c, in.healthy, in.up, exists, db,
                                 in.failAt).client}})

(***************************************************************************)
(* generate_sql calls as tasks of one asyncio event loop.  A task keeps    *)
(* the loop from one await that suspends to the next; `at` names the await *)
(* a task is at: "initialize" for `await self._rag_system.initialize()`,   *)
(* "generate" for the awaits of the generation step.                       *)
(***************************************************************************)
\* how many calls are started on the one client
MaxTasks == 2

\* a call that has not started: where it is, the result of initialize() it
\* holds, whether it called _train_vanna_model, whether it raised
NewTask == [pc |-> "start", pending |-> FALSE, trained |-> FALSE, raised |-> FALSE]

\* the awaits as they would be if the store were called through an
\* asynchronous client, so that initialize() waited for the network
suspends_at_initialize(at) == at = "initialize"

\* whether the await gives the loop to another task: initialize(),
\* _extract_schema_info(), enhance_question() and retrieve_relevant_context()
\* are coroutines that call the store, the database and the service with
\* blocking calls and await nothing that is pending
suspends(at) == FALSE

\* an indexing run that has not started: where extract_and_store_real_schema
\* is, the schema it extracted, whether its clear step deleted
IdleIndexer == [pc |-> "idle", real_schema |-> <<>>, cleared |-> FALSE]

(***************************************************************************)
(* State.                                                                  *)
(***************************************************************************)
VARIABLES
    qdrantUp,          \* the vector store server answers
    collectionExists,  \* the collection "database_schema" exists
    points,            \* the points of the collection, by id
    vannaUp,           \* the generation service answers
    database,          \* the tables of the relational database
    client,            \* a VannaClientRepository instance used directly
    instances,         \* how many such instances were constructed
    clientRuns,        \* ensure-ready runs of generate_sql on `client`
    ensureRuns,        \* ensure-ready runs of generate_sql in the process
    trainDdl,          \* train(ddl=...) calls issued in the process
    last,              \* the last operation and what its caller saw
    tasks,             \* the generate_sql calls running as tasks of one loop
    running,           \* the task that holds the event loop, 0 when none does
    indexer,           \* an indexing run in its own process, step by step
    local              \* a LocalVannaClientRepository instance

vars == <<qdrantUp, collectionExists, points, vannaUp, database, client,
          instances, clientRuns, ensureRuns, trainDdl, last, tasks, running,
          indexer, local>>

\* the outcomes a call to a collaborator can have: it may always fail, and
\* it can succeed only when the collaborator is reachable
outcomes(reachable) == IF reachable THEN {TRUE, FALSE} ELSE {FALSE}

\* the inputs of a generate_sql call in which nothing after the first store
\* call matters
DefaultInputs ==
    [up |-> FALSE, exists |-> FALSE, failAt |-> 0, trainScroll |-> FALSE,
     searched |-> [ok |-> FALSE, scoring |-> <<>>], scrollOk |-> FALSE,
     serviceUp |-> FALSE, ask |-> [kind |-> "raise", val |-> <<>>]]

\* The inputs of one generate_sql call, i.e. what the collaborators do
\* during it, on instance c in the current state:
\*   up, exists  the store answers initialize()'s calls / lists the collection
\*   failAt      where _extract_schema_info fails (0: nowhere)
\*   trainScroll the scroll of get_schema_context answers
\*   searched    outcome of the search call of retrieve_relevant_context
\*   scrollOk    the scroll of retrieve_relevant_context answers (here: when
\*               its search did)
\*   serviceUp   train calls to the generation service succeed
\*   ask         what vanna_client.ask does
GenerateInputs(c) ==
    IF ~c.vanna_client \/ c.rag_initialized
    THEN {DefaultInputs}
    ELSE {DefaultInputs} \cup
         (IF qdrantUp
          THEN {[DefaultInputs EXCEPT !.up = TRUE, !.exists = collectionExists,
                                      !.failAt = f] :
                    f \in FailPoints(database) \ {0}}
          ELSE {}) \cup
         (IF qdrantUp /\ collectionExists
          THEN {[up |-> TRUE, exists |-> TRUE, failAt |-> 0, trainScroll |-> ts,
                 searched |-> se, scrollOk |-> se.ok, serviceUp |-> vannaUp,
                 ask |-> a] :
                    ts \in BOOLEAN,
                    se \in {x \in search_outcomes(points, TRUE) :
                               ~x.ok \/ \A i \in DOMAIN x.scoring : x.scoring[i] = 500},
                    a \in ask_outcomes(vannaUp)}
          ELSE {})

\* the questions put to generate_sql directly
GenerateQuestions == {Q_ShowAllEmployees, Q_UpperAverage, Q_Hello}

\* the questions posted to /query
QueryQuestions == {Q_ShowAllEmployees, Q_Hello, Q_Blank, <<>>}

Init ==
    /\ tasks = [t \in 1..MaxTasks |-> NewTask]
    /\ running = 0
    /\ indexer = IdleIndexer
    /\ local = LocalVannaClientRepository_init
    /\ qdrantUp \in BOOLEAN
    /\ collectionExists = FALSE
    /\ points = [i \in PointIds |-> NoPoint]
    /\ vannaUp \in BOOLEAN
    /\ database \in Databases
    /\ client = VannaClientRepository_init(TRUE)
    /\ instances = 1
    /\ clientRuns = 0
    /\ ensureRuns = 0
    /\ trainDdl = 0
    /\ last = [op |-> "none"]

(***************************************************************************)
(* Environment.                                                            *)
(***************************************************************************)
\* the vector store server goes down or comes back
StoreFlip ==
    /\ qdrantUp' = ~qdrantUp
    /\ UNCHANGED <<local, indexer, tasks, running, collectionExists, points, vannaUp, database, client,
                   instances, clientRuns, ensureRuns, trainDdl, last>>

\* the generation service goes down or comes back
ServiceFlip ==
    /\ vannaUp' = ~vannaUp
    /\ UNCHANGED <<local, indexer, tasks, running, qdrantUp, collectionExists, points, database, client,
                   instances, clientRuns, ensureRuns, trainDdl, last>>

\* fix_rag_context_issue.improve_schema_data: drop the collection (an
\* exception of the drop is swallowed), create it again, upload the six
\* points, read them back; any other exception ends it where it is
improve_schema_data ==
    /\ qdrantUp
    /\ \E progress \in {"nothing done", "create failed", "upsert failed",
                        "verify failed", "verified"} :
        /\ collectionExists' = IF progress = "nothing done" THEN collectionExists
                               ELSE progress # "create failed"
        /\ points' = IF progress = "nothing done" THEN points
                     ELSE [i \in PointIds |->
                             IF /\ progress \in {"verify failed", "verified"}
                                /\ i \in DOMAIN improved_points
                             THEN improved_points[i] ELSE NoPoint]
        /\ last' = [op |-> "improve_schema_data", returned |-> progress = "verified"]
    /\ UNCHANGED <<local, indexer, tasks, running, qdrantUp, vannaUp, database, client, instances, clientRuns,
                   ensureRuns, trainDdl>>

(***************************************************************************)
(* Operations on the client.                                               *)
(***************************************************************************)
\* a new VannaClientRepository replaces the one in use
NewClient ==
    /\ instances < MaxInstances
    /\ \E constructed \in BOOLEAN :
           client' = VannaClientRepository_init(constructed)
    /\ instances' = instances + 1
    /\ clientRuns' = 0
    /\ last' = [op |-> "new_client"]
    /\ UNCHANGED <<local, indexer, tasks, running, qdrantUp, collectionExists, points, vannaUp, database,
                   ensureRuns, trainDdl>>

\* what the caller of generate_sql saw, with the situation it was called in
GenerateOutcome(question, c, in, g) ==
    [op |-> "generate_sql", question |-> question,
     storeUp |-> qdrantUp, serviceUp |-> vannaUp,
     initialized_before |-> c.rag_initialized,
     ask |-> IF g.primary = "not run"
             THEN [kind |-> "not asked", val |-> <<>>] ELSE in.ask,
     raised |-> g.raised, error |-> g.error, sql |-> g.sql,
     path |-> g.path, primary |-> g.primary, inits |-> g.inits, ddl |-> g.ddl]

\* await client.generate_sql(question)
GenerateSql ==
    \E question \in GenerateQuestions, in \in GenerateInputs(client) :
      \E g \in {VannaClientRepository_generate_sql(client, question, in, database, points)} :
        /\ ensureRuns + g.inits <= MaxCount
        /\ trainDdl + g.ddl <= MaxCount
        /\ client' = g.client
        /\ clientRuns' = clientRuns + g.inits
        /\ ensureRuns' = ensureRuns + g.inits
        /\ trainDdl' = trainDdl + g.ddl
        /\ last' = GenerateOutcome(question, client, in, g)
        /\ UNCHANGED <<local, indexer, tasks, running, qdrantUp, collectionExists, points, vannaUp, database,
                       instances>>

\* await client._rag_system.initialize(), as the scripts call it
RagInitialize ==
    \E up \in outcomes(qdrantUp), failAt \in FailPoints(database) :
      \E r \in {EnhancedRAGSystem_initialize(client.rag, up, collectionExists,
                                             database, failAt)} :
        /\ Len(r.rag.schema_contexts) <= MaxContexts
        /\ client' = [client EXCEPT !.rag = r.rag]
        /\ last' = [op |-> "initialize", returned |-> r.ok]
        /\ UNCHANGED <<local, indexer, tasks, running, qdrantUp, collectionExists, points, vannaUp, database,
                       instances, clientRuns, ensureRuns, trainDdl>>

\* await client._rag_system.retrieve_relevant_context(question)
Retrieve ==
    \E question \in RetrieveQuestions,
       se \in search_outcomes(points, qdrantUp /\ collectionExists),
       so \in outcomes(qdrantUp /\ collectionExists) :
      \E r \in {retrieve_relevant_context(client.rag, question, points, se, so)} :
        /\ last' = [op |-> "retrieve", question |-> question,
                    storeUp |-> qdrantUp,
                    searched |-> se, scrollOk |-> so,
                    raised |-> r.raised, contexts |-> r.contexts]
        /\ UNCHANGED <<local, indexer, tasks, running, qdrantUp, collectionExists, points, vannaUp, database,
                       client, instances, clientRuns, ensureRuns, trainDdl>>

\* POST /query: process_query builds a new client and new repositories,
\* runs the use case and maps what it raises to an HTTP status
process_query ==
    \E question \in QueryQuestions, constructed \in BOOLEAN, execOk \in BOOLEAN :
      \E c \in {VannaClientRepository_init(constructed)} :
      \E in \in IF QueryRequest_invalid(question)
                THEN {DefaultInputs} ELSE GenerateInputs(c) :
      \E g \in {VannaClientRepository_generate_sql(c, question, in, database, points)} :
      \E e \in {ProcessQueryUseCase_execute(question, g, execOk)} :
        LET inits == IF e.generate_called THEN g.inits ELSE 0
            ddl   == IF e.generate_called THEN g.ddl ELSE 0
        IN  /\ ensureRuns + inits <= MaxCount
            /\ trainDdl + ddl <= MaxCount
            /\ ensureRuns' = ensureRuns + inits
            /\ trainDdl' = trainDdl + ddl
            /\ last' = [op |-> "process_query", question |-> question,
                        storeUp |-> qdrantUp,
                        status |-> http_status(e.raised),
                        raised |-> e.raised, message |-> e.message,
                        query_saved |-> e.query_saved,
                        generate_called |-> e.generate_called,
                        generation_failed |-> e.generate_called /\ g.raised,
                        generated_sql |-> IF e.generate_called THEN g.sql ELSE <<>>,
                        executed |-> e.executed,
                        execution_failed |-> e.executed /\ ~execOk,
                        response_saved |-> e.response_saved,
                        sql_query |-> e.sql_query,
                        error_message |-> e.error_message]
            /\ UNCHANGED <<local, indexer, tasks, running, qdrantUp, collectionExists, points, vannaUp,
                           database, client, instances, clientRuns>>

(***************************************************************************)
(* The indexer and the corrective upload, each run as a script in an       *)
(* interpreter process of its own.                                         *)
(***************************************************************************)
\* the schema of the database changes between two runs
SchemaChange ==
    /\ \E db \in IndexDatabases \ {database} : database' = db
    /\ UNCHANGED <<local, indexer, tasks, running, qdrantUp, collectionExists, points, vannaUp, client,
                   instances, clientRuns, ensureRuns, trainDdl, last>>

\* The inputs of one indexing run, i.e. what its collaborators do:
\*   failAt    where reading the database fails (0: nowhere)
\*   h         hash(table_name) % 1000 of this process for an unlisted name
\*   cleared   the scroll and the delete of _clear_old_schema_data answer
\*   upserted  the upsert answers
\*   verified  the scroll of _verify_stored_schema answers
IndexInputs ==
    {[failAt |-> f, h |-> 7, cleared |-> FALSE, upserted |-> FALSE,
      verified |-> FALSE] :
        f \in {x \in FailPoints(database) : extract_raises(database, x)}} \cup
    {in \in {[failAt |-> 0, h |-> h, cleared |-> c, upserted |-> u,
               verified |-> v] :
                 h \in IF \E k \in 1..Len(database) : database[k] = T_customers
                       THEN HashIds ELSE {7},
                 c \in outcomes(qdrantUp /\ collectionExists),
                 u \in outcomes(qdrantUp /\ collectionExists),
                 v \in outcomes(qdrantUp /\ collectionExists)} :
        in.verified => in.upserted}

\* real_schema_extractor.main: one run of extract_and_store_real_schema
ExtractAndStore ==
    /\ \E in \in IndexInputs :
        \E r \in {extract_and_store_real_schema(points, database, in)} :
            /\ points' = r.points
            /\ last' = [op        |-> "index",
                        listed    |-> database,
                        failAt    |-> in.failAt,
                        cleared   |-> in.cleared,
                        extracted |-> r.extracted,
                        stored    |-> r.stored,
                        returned  |-> r.returned]
    /\ UNCHANGED <<local, indexer, tasks, running, qdrantUp, collectionExists, vannaUp, database, client,
                   instances, clientRuns, ensureRuns, trainDdl>>

\* fix_schema_mismatch up to update_qdrant_with_correct_schema, called with
\* the schema get_actual_database_schema read
UpdateCorrectSchema ==
    /\ \E upserted \in outcomes(qdrantUp /\ collectionExists) :
        /\ points' = update_qdrant_with_correct_schema(
                         points, extracted_tables(database, Len(database)),
                         upserted)
        /\ last' = [op |-> "update_correct_schema", stored |-> upserted]
    /\ UNCHANGED <<local, indexer, tasks, running, qdrantUp, collectionExists, vannaUp, database, client,
                   instances, clientRuns, ensureRuns, trainDdl>>

(***************************************************************************)
(* The pattern fallback called on its own.                                 *)
(***************************************************************************)
\* self._generate_sql_from_patterns(question) for the question drawn
GenerateFromPatterns ==
    /\ last.op = "question"
    /\ last' = [op       |-> "generate_sql_from_patterns",
                question |-> last.question,
                sql      |-> generate_sql_from_patterns(last.question)]
    /\ UNCHANGED <<local, indexer, tasks, running, qdrantUp, collectionExists, points, vannaUp, database,
                   client, instances, clientRuns, ensureRuns, trainDdl>>

(***************************************************************************)
(* One request of the local client, retries left to its default.           *)
(***************************************************************************)
\* await self._make_request(endpoint) against the server drawn
MakeRequest ==
    /\ last.op = "request"
    /\ \E r \in {make_request(last.responses, local_vanna_max_retries)} :
        last' = [op        |-> "make_request",
                 responses |-> last.responses,
                 raised    |-> r.raised,
                 error     |-> r.error,
                 attempts  |-> r.attempts,
                 waits     |-> r.waits]
    /\ UNCHANGED <<local, indexer, tasks, running, qdrantUp, collectionExists, points, vannaUp, database,
                   client, instances, clientRuns, ensureRuns, trainDdl>>

\* await self._make_request(endpoint, retries=...) with the budget and
\* against the server drawn
MakeBudgetRequest ==
    /\ last.op = "budget request"
    /\ \E r \in {make_request(last.responses, last.retries)} :
        last' = [op        |-> "make_budget_request",
                 responses |-> last.responses,
                 retries   |-> last.retries,
                 raised    |-> r.raised,
                 error     |-> r.error,
                 attempts  |-> r.attempts,
                 waits     |-> r.waits]
    /\ UNCHANGED <<local, indexer, tasks, running, qdrantUp, collectionExists,
                   points, vannaUp, database, client, instances, clientRuns,
                   ensureRuns, trainDdl>>

(***************************************************************************)
(* Concurrent generate_sql calls on one client.                            *)
(***************************************************************************)
\* the loop is free for task t, or t holds it
may_run(t) == running \in {0, t}

\* lines 337-344 and 361-362: the client check and the test of the flag
TaskStart(t) ==
    /\ may_run(t)
    /\ tasks[t].pc = "start"
    /\ IF ~client.vanna_client \/ ~client.api_key_set \/ client.rag_initialized
       THEN /\ tasks' = [tasks EXCEPT ![t].pc = "done", ![t].raised = TRUE]
            /\ running' = 0
       ELSE /\ tasks' = [tasks EXCEPT ![t].pc = "initialize"]
            /\ running' = t
    /\ UNCHANGED <<local, indexer, qdrantUp, collectionExists, points, vannaUp, database,
                   client, instances, clientRuns, ensureRuns, trainDdl, last>>

\* line 347, right-hand side: await self._rag_system.initialize()
TaskInitialize(t) ==
    /\ may_run(t)
    /\ tasks[t].pc = "initialize"
    /\ \E up \in outcomes(qdrantUp), failAt \in FailPoints(database) :
        \E r \in {EnhancedRAGSystem_initialize(client.rag, up, collectionExists,
                                               database, failAt)} :
            /\ client' = [client EXCEPT !.rag = r.rag]
            /\ tasks' = [tasks EXCEPT ![t].pc = "set_flag", ![t].pending = r.ok]
    /\ running' = IF suspends("initialize") THEN 0 ELSE t
    /\ clientRuns' = clientRuns + 1
    /\ ensureRuns' = ensureRuns + 1
    /\ UNCHANGED <<local, indexer, qdrantUp, collectionExists, points, vannaUp, database,
                   instances, trainDdl, last>>

\* lines 347-360: the flag takes the result, then training or the raise
TaskSetFlag(t) ==
    /\ may_run(t)
    /\ tasks[t].pc = "set_flag"
    /\ client' = [client EXCEPT !.rag_initialized = tasks[t].pending]
    /\ IF tasks[t].pending
       THEN /\ \E scrolled \in outcomes(qdrantUp /\ collectionExists) :
                \E tr \in {train_vanna_model(client, points, scrolled, vannaUp)} :
                    trainDdl' = trainDdl + tr.ddl
            /\ tasks' = [tasks EXCEPT ![t].pc = "generate", ![t].trained = TRUE]
            /\ running' = t
       ELSE /\ trainDdl' = trainDdl
            /\ tasks' = [tasks EXCEPT ![t].pc = "done", ![t].raised = TRUE]
            /\ running' = 0
    /\ UNCHANGED <<local, indexer, qdrantUp, collectionExists, points, vannaUp, database,
                   instances, clientRuns, ensureRuns, last>>

\* lines 364-377: the primary path, then the pattern fallback
TaskGenerate(t) ==
    /\ may_run(t)
    /\ tasks[t].pc = "generate"
    /\ \E a \in {x \in ask_outcomes(vannaUp) :
                    \/ x.kind = "raise"
                    \/ x = [kind |-> "str", val |-> <<"S", "E", "L", "E", "C", "T", " ", "1">>]} :
        \E g \in {generate_with_fallback(client, Q_Hello,
                                         [DefaultInputs EXCEPT !.ask = a],
                                         database, points)} :
            /\ client' = g.client
            /\ tasks' = [tasks EXCEPT ![t].pc = "done", ![t].raised = g.raised]
    /\ running' = 0
    /\ UNCHANGED <<local, indexer, qdrantUp, collectionExists, points, vannaUp, database,
                   instances, clientRuns, ensureRuns, trainDdl, last>>

\* one step of the call of task t
TaskStep(t) ==
    \/ TaskStart(t)
    \/ TaskInitialize(t)
    \/ TaskSetFlag(t)
    \/ TaskGenerate(t)

(***************************************************************************)
(* extract_and_store_real_schema step by step, as the other processes that *)
(* use the store see it: each store call is one step.                      *)
(***************************************************************************)
\* lines 55-59: extract the schema, give up when it is empty
IndexExtract ==
    /\ indexer.pc = "idle"
    /\ \E failAt \in FailPoints(database) :
        \E real_schema \in {extract_real_database_schema(database, failAt)} :
            /\ indexer' = IF real_schema = <<>> THEN IdleIndexer
                          ELSE [pc |-> "extracted", real_schema |-> real_schema,
                                cleared |-> FALSE]
            /\ last' = [op |-> "index step", step |-> "extract",
                        returned |-> IF real_schema = <<>> THEN "False" ELSE "running"]
    /\ UNCHANGED <<local, qdrantUp, collectionExists, points, vannaUp, database,
                   client, instances, clientRuns, ensureRuns, trainDdl,
                   tasks, running>>

\* lines 61-63: _clear_old_schema_data
IndexClear ==
    /\ indexer.pc = "extracted"
    /\ \E cleared \in outcomes(qdrantUp /\ collectionExists) :
        /\ points' = clear_old_schema_data(points, cleared)
        /\ indexer' = [indexer EXCEPT !.pc = "cleared", !.cleared = cleared]
    /\ last' = [op |-> "index step", step |-> "clear", returned |-> "running"]
    /\ UNCHANGED <<local, qdrantUp, collectionExists, vannaUp, database, client,
                   instances, clientRuns, ensureRuns, trainDdl, tasks, running>>

\* lines 65-70: _store_real_schema_in_qdrant, give up when it failed
IndexStore ==
    /\ indexer.pc = "cleared"
    /\ \E upserted \in outcomes(qdrantUp /\ collectionExists), h \in {7} :
        /\ points' = store_real_schema_in_qdrant(points, indexer.real_schema,
                                                  h, upserted)
        /\ indexer' = IF upserted THEN [indexer EXCEPT !.pc = "stored"]
                      ELSE IdleIndexer
        /\ last' = [op |-> "index step", step |-> "store",
                    returned |-> IF upserted THEN "running" ELSE "False"]
    /\ UNCHANGED <<local, qdrantUp, collectionExists, vannaUp, database, client,
                   instances, clientRuns, ensureRuns, trainDdl, tasks, running>>

\* lines 72-82: _verify_stored_schema and the result of the run
IndexVerify ==
    /\ indexer.pc = "stored"
    /\ \E scrolled \in outcomes(qdrantUp /\ collectionExists) :
        last' = [op |-> "index step", step |-> "verify",
                 returned |-> IF verify_stored_schema(points, indexer.real_schema,
                                                      scrolled)
                              THEN "True" ELSE "False"]
    /\ indexer' = IdleIndexer
    /\ UNCHANGED <<local, qdrantUp, collectionExists, points, vannaUp, database,
                   client, instances, clientRuns, ensureRuns, trainDdl,
                   tasks, running>>

\* await local.initialize(), as the server start-up and the scripts call it
LocalInitialize ==
    \E healthy \in outcomes(vannaUp), up \in outcomes(qdrantUp),
       failAt \in FailPoints(database) :
      \E r \in {LocalVannaClientRepository_initialize(
                    local, healthy, up, collectionExists, database, failAt)} :
        /\ local' = r.client
        /\ last' = [op |-> "local_initialize", returned |-> r.ok]
        /\ UNCHANGED <<indexer, tasks, running, qdrantUp, collectionExists,
                       points, vannaUp, database, client, instances,
                       clientRuns, ensureRuns, trainDdl>>

\* await local.generate_sql(question)
LocalGenerateSql ==
    \E question \in GenerateQuestions,
       healthy \in outcomes(vannaUp), up \in outcomes(qdrantUp),
       failAt \in FailPoints(database),
       se \in search_outcomes(points, qdrantUp /\ collectionExists),
       so \in outcomes(qdrantUp /\ collectionExists),
       reply \in LocalReplies(vannaUp) :
      \E r \in {LocalVannaClientRepository_generate_sql(
                    local, question,
                    [healthy |-> healthy, up |-> up, failAt |-> failAt,
                     searched |-> se, scrollOk |-> so, reply |-> reply],
                    collectionExists, database, points)} :
        /\ local' = r.client
        /\ last' = [op |-> "local_generate_sql", question |-> question,
                    raised |-> r.raised, error |-> r.error,
                    contexts |-> r.contexts, sql |-> r.sql]
        /\ UNCHANGED <<indexer, tasks, running, qdrantUp, collectionExists,
                       points, vannaUp, database, client, instances,
                       clientRuns, ensureRuns, trainDdl>>

(***************************************************************************)
(* Specifications.                                                         *)
(***************************************************************************)
\* generate_sql called directly on client instances
Next ==
    \/ StoreFlip
    \/ ServiceFlip
    \/ improve_schema_data
    \/ NewClient
    \/ GenerateSql

Spec == Init /\ [][Next]_vars

\* requests to POST /query
NextQuery ==
    \/ StoreFlip
    \/ ServiceFlip
    \/ improve_schema_data
    \/ process_query

SpecQuery == Init /\ [][NextQuery]_vars

\* context retrieval on the RAG system of one client
NextRetrieve ==
    \/ StoreFlip
    \/ improve_schema_data
    \/ RagInitialize
    \/ Retrieve

SpecRetrieve == Init /\ [][NextRetrieve]_vars

\* the indexer starts on a store without the collection
InitIndex ==
    /\ tasks = [t \in 1..MaxTasks |-> NewTask]
    /\ running = 0
    /\ indexer = IdleIndexer
    /\ local = LocalVannaClientRepository_init
    /\ qdrantUp \in BOOLEAN
    /\ collectionExists = FALSE
    /\ points = [i \in PointIds |-> NoPoint]
    /\ vannaUp = FALSE
    /\ database \in IndexDatabases
    /\ client = VannaClientRepository_init(TRUE)
    /\ instances = 1
    /\ clientRuns = 0
    /\ ensureRuns = 0
    /\ trainDdl = 0
    /\ last = [op |-> "none"]

\* indexing runs against a store and a database that change
NextIndex ==
    \/ StoreFlip
    \/ SchemaChange
    \/ improve_schema_data
    \/ ExtractAndStore
    \/ UpdateCorrectSchema

SpecIndex == InitIndex /\ [][NextIndex]_vars

\* a question is drawn for the pattern fallback
InitPatterns ==
    /\ tasks = [t \in 1..MaxTasks |-> NewTask]
    /\ running = 0
    /\ indexer = IdleIndexer
    /\ local = LocalVannaClientRepository_init
    /\ qdrantUp = FALSE
    /\ collectionExists = FALSE
    /\ points = [i \in PointIds |-> NoPoint]
    /\ vannaUp = FALSE
    /\ database = <<>>
    /\ client = VannaClientRepository_init(TRUE)
    /\ instances = 1
    /\ clientRuns = 0
    /\ ensureRuns = 0
    /\ trainDdl = 0
    /\ \E question \in PatternQuestions :
           last = [op |-> "question", question |-> question]

\* the pattern fallback applied to the question
NextPatterns ==
    GenerateFromPatterns

SpecPatterns == InitPatterns /\ [][NextPatterns]_vars

\* the behaviour of the server during one request is drawn
InitRequest ==
    /\ tasks = [t \in 1..MaxTasks |-> NewTask]
    /\ running = 0
    /\ indexer = IdleIndexer
    /\ local = LocalVannaClientRepository_init
    /\ qdrantUp = FALSE
    /\ collectionExists = FALSE
    /\ points = [i \in PointIds |-> NoPoint]
    /\ vannaUp = FALSE
    /\ database = <<>>
    /\ client = VannaClientRepository_init(TRUE)
    /\ instances = 1
    /\ clientRuns = 0
    /\ ensureRuns = 0
    /\ trainDdl = 0
    /\ \E responses \in Responses :
           last = [op |-> "request", responses |-> responses]

\* the request is made
NextRequest ==
    MakeRequest

SpecRequest == InitRequest /\ [][NextRequest]_vars

\* a budget and a server are drawn, nothing else is running
InitBudget ==
    /\ tasks = [t \in 1..MaxTasks |-> NewTask]
    /\ running = 0
    /\ indexer = IdleIndexer
    /\ local = LocalVannaClientRepository_init
    /\ qdrantUp = FALSE
    /\ collectionExists = FALSE
    /\ points = [i \in PointIds |-> NoPoint]
    /\ vannaUp = FALSE
    /\ database = <<>>
    /\ client = VannaClientRepository_init(TRUE)
    /\ instances = 1
    /\ clientRuns = 0
    /\ ensureRuns = 0
    /\ trainDdl = 0
    /\ \E responses \in BudgetResponses, retries \in Budgets :
           last = [op |-> "budget request", responses |-> responses,
                   retries |-> retries]

\* the request is made
NextBudget ==
    MakeBudgetRequest

SpecBudget == InitBudget /\ [][NextBudget]_vars

\* the calls are started on a new client while the database has its tables
InitRace ==
    /\ tasks = [t \in 1..MaxTasks |-> NewTask]
    /\ running = 0
    /\ indexer = IdleIndexer
    /\ local = LocalVannaClientRepository_init
    /\ qdrantUp \in BOOLEAN
    /\ collectionExists = FALSE
    /\ points = [i \in PointIds |-> NoPoint]
    /\ vannaUp \in BOOLEAN
    /\ database = <<T_users, T_sqlite_sequence, T_employees, T_sales, T_orders>>
    /\ client = VannaClientRepository_init(TRUE)
    /\ instances = 1
    /\ clientRuns = 0
    /\ ensureRuns = 0
    /\ trainDdl = 0
    /\ last = [op |-> "none"]

\* the tasks of the loop, beside a store and a service that come and go
NextRace ==
    \/ StoreFlip
    \/ ServiceFlip
    \/ improve_schema_data
    \/ \E t \in 1..MaxTasks : TaskStart(t)
    \/ \E t \in 1..MaxTasks : TaskInitialize(t)
    \/ \E t \in 1..MaxTasks : TaskSetFlag(t)
    \/ \E t \in 1..MaxTasks : TaskGenerate(t)

\* the event loop runs every task that is ready
SpecRace ==
    /\ InitRace
    /\ [][NextRace]_vars
    /\ \A t \in 1..MaxTasks : WF_vars(TaskStep(t))

\* the store holds what improve_schema_data uploaded and the RAG system of
\* the client has been initialised on it; the indexer and the client of
\* the application are two processes
InitReindex ==
    /\ tasks = [t \in 1..MaxTasks |-> NewTask]
    /\ running = 0
    /\ indexer = IdleIndexer
    /\ local = LocalVannaClientRepository_init
    /\ qdrantUp = TRUE
    /\ collectionExists = TRUE
    /\ points = [i \in PointIds |->
                    IF i \in DOMAIN improved_points THEN improved_points[i]
                    ELSE NoPoint]
    /\ vannaUp = FALSE
    /\ database = <<T_users, T_sqlite_sequence, T_employees, T_sales, T_orders>>
    /\ client = [VannaClientRepository_init(TRUE) EXCEPT
                     !.rag = EnhancedRAGSystem_initialize(
                                 EnhancedRAGSystem_init, TRUE, TRUE,
                                 <<T_users, T_sqlite_sequence, T_employees,
                                   T_sales, T_orders>>, 0).rag]
    /\ instances = 1
    /\ clientRuns = 0
    /\ ensureRuns = 0
    /\ trainDdl = 0
    /\ last = [op |-> "none"]

\* retrieval beside an indexing run; the store is up, and any call to it
\* can still fail
NextReindex ==
    \/ Retrieve
    \/ IndexExtract
    \/ IndexClear
    \/ IndexStore
    \/ IndexVerify

SpecReindex == InitReindex /\ [][NextReindex]_vars

\* the client of the local generation server, used next to the store and
\* the server
NextLocal ==
    \/ StoreFlip
    \/ ServiceFlip
    \/ improve_schema_data
    \/ LocalInitialize
    \/ LocalGenerateSql

SpecLocal == Init /\ [][NextLocal]_vars

(***************************************************************************)
(* Properties.                                                             *)
(***************************************************************************)
\* the question is empty or consists of whitespace only
Blank(question) == \A i \in 1..Len(question) : question[i] \in Whitespace

\* the question contains "all employees", case-insensitively
AsksAllEmployees(question) ==
    contains(<<"a", "l", "l", " ", "e", "m", "p", "l", "o", "y", "e", "e", "s">>,
             lower(question))

C2_FallbackOnPrimaryFailure ==
    (/\ last.op = "generate_sql"
     /\ last.primary = "failed"
     /\ AsksAllEmployees(last.question))
    => (~last.raised /\ last.sql = SQL_all_employees)

C2_Witness ==
    /\ last.op = "generate_sql"
    /\ last.primary = "failed"
    /\ last.question = Q_UpperAverage
    /\ last.path = "fallback"
    /\ last.sql = SQL_all_employees

\* C3 (as claimed): across any sequence of generate_sql calls in one process
\* the ensure-ready step is executed at most once.
C3_EnsureReadyAtMostOnce == ensureRuns <= 1

\* C3 (amended): on one VannaClientRepository instance, once the ensure-ready
\* step has succeeded no later generate_sql call runs it again; while it has
\* not succeeded, every generate_sql call that gets past the client check
\* runs it.
C3_NoRerunAfterSuccess ==
    [][instances' = instances
          => /\ client.rag_initialized => clientRuns' = clientRuns
             /\ (/\ ~client.rag_initialized
                 /\ client.vanna_client
                 /\ last'.op = "generate_sql"
                 /\ (last' # last \/ client' # client))
                => clientRuns' = clientRuns + 1]_vars

\* a failed run, then a successful one, then a call that runs nothing
C3_Witness ==
    /\ last.op = "generate_sql"
    /\ last.initialized_before
    /\ last.inits = 0
    /\ instances = 1
    /\ clientRuns = 2

\* C4: in one process lifetime train(ddl=...) is issued at most once.
C4_TrainedAtMostOnce == trainDdl <= 1

\* C5: a failure of SQL generation reaches the caller of POST /query as a
\* RuntimeError (status 500), an empty or whitespace-only question as a
\* ValueError (status 400).
C5_FailureKindsDistinct ==
    last.op = "process_query"
    => /\ last.generation_failed
            => (last.raised = "RuntimeError" /\ last.status = 500)
       /\ Blank(last.question)
            => (last.raised = "ValueError" /\ last.status = 400)

\* C6: an empty or whitespace-only question is rejected with the validation
\* error before the query is saved and before generate_sql is called.
C6_BlankQuestionRejectedFirst ==
    (last.op = "process_query" /\ Blank(last.question))
    => /\ last.raised = "ValueError"
       /\ last.message = "Question cannot be empty"
       /\ last.status = 400
       /\ ~last.query_saved
       /\ ~last.generate_called
       /\ last.response_saved = "none"

C6_Witness ==
    /\ last.op = "process_query"
    /\ last.question = Q_Blank
    /\ last.status = 400
    /\ ~last.query_saved

\* C7: when SQL was generated but executing it fails, the reported outcome
\* carries the generated SQL together with the execution error.
C7_PartialSuccessReported ==
    (last.op = "process_query" /\ last.execution_failed)
    => /\ last.sql_query = last.generated_sql
       /\ last.error_message = "Query execution failed"

\* the table_schema records of the store, in id order, as contexts
StoredSchemaContexts ==
    LET ids == {i \in PointIds : points[i].type = "table_schema"}
    IN  [k \in 1..Cardinality(ids) |->
            [type |-> "table_schema", text |-> points[ascending(ids)[k]].text]]

\* the search of the last retrieve call kept no result
NoUsableResult ==
    /\ last.searched.ok
    /\ \A i \in PointIds :
          points[i] # NoPoint => (last.searched.scoring[i] <= 10 \/ points[i].text = EmptyText)

\* C8: retrieve_relevant_context never raises; when the store is not
\* available, or the search or the scroll call fails, it returns the result
\* of the text-matching fallback.
C8_RetrieveNeverRaises ==
    last.op = "retrieve"
    => /\ ~last.raised
       /\ (\/ ~client.rag.is_available
           \/ ~client.rag.vector_db
           \/ ~last.searched.ok
           \/ (NoUsableResult /\ ~last.scrollOk))
          => last.contexts = fallback_context_retrieval(client.rag, last.question)

\* the scroll call failed after a search that kept nothing
C8_Witness ==
    /\ last.op = "retrieve"
    /\ client.rag.is_available
    /\ NoUsableResult
    /\ ~last.scrollOk
    /\ last.contexts # <<>>

\* the name of a table the extractor reads, or of one of its columns, occurs
\* in the lowercased question
MentionsSchema(question) ==
    LET tables == extracted_tables(database, Len(database))
    IN  \E i \in 1..Len(tables) :
            \/ contains(lower(tables[i].name), lower(question))
            \/ \E j \in 1..Len(tables[i].columns) :
                   contains(lower(tables[i].columns[j]), lower(question))

\* C9: with the vector store unreachable, retrieve of a non-empty question
\* returns a non-empty sequence exactly if the name of a table of the
\* database or of one of its columns occurs in the question.
C9_FallbackCompleteness ==
    (last.op = "retrieve" /\ ~last.storeUp /\ last.question # <<>>)
    => /\ ~last.raised
       /\ (last.contexts # <<>>) <=> MentionsSchema(last.question)

\* C10 (as claimed): whenever the vector-search step yields no usable result
\* (store empty, search error, or every hit filtered out), retrieve returns
\* all stored table_schema records.
C10_FallbackAllOnZeroResults ==
    (/\ last.op = "retrieve"
     /\ client.rag.is_available /\ client.rag.vector_db
     /\ (~last.searched.ok \/ NoUsableResult))
    => last.contexts = StoredSchemaContexts

\* C10 (amended): when the search call succeeds without a usable result and
\* the scroll call succeeds, retrieve returns all stored table_schema
\* records; when the search call or the scroll call fails it returns the
\* text-matching fallback.
C10_FallbackAllAfterEmptySearch ==
    (/\ last.op = "retrieve"
     /\ client.rag.is_available /\ client.rag.vector_db)
    => /\ (NoUsableResult /\ last.scrollOk)
            => last.contexts = StoredSchemaContexts
       /\ (~last.searched.ok \/ (NoUsableResult /\ ~last.scrollOk))
            => last.contexts = fallback_context_retrieval(client.rag, last.question)

\* every hit was filtered out of a store of four table_schema points
C10_Witness ==
    /\ last.op = "retrieve"
    /\ client.rag.is_available /\ client.rag.vector_db
    /\ NoUsableResult /\ last.scrollOk
    /\ Len(last.contexts) = 4

SchemaIds(pts, table_name) ==
    {i \in PointIds : pts[i].type = "table_schema" /\ pts[i].table = table_name}

\* C12: the store never holds two table_schema records for one table name.
C12_OneRecordPerTable ==
    \A i \in PointIds :
        points[i].type = "table_schema"
            => SchemaIds(points, points[i].table) = {i}


\* how many table_schema records a store holds
SchemaCount(pts) ==
    Cardinality({i \in PointIds : pts[i].type = "table_schema"})

\* C13: an indexing run that wrote its records, directly followed by one
\* that wrote the same descriptors, leaves as many table_schema records as
\* the first did and every table's record under the id it had.
C13_ReindexKeepsIds ==
    [][(/\ last.op = "index" /\ last.stored
        /\ last'.op = "index" /\ last'.stored
        /\ last'.extracted = last.extracted)
       => /\ SchemaCount(points') = SchemaCount(points)
          /\ \A k \in 1..Len(last.extracted) :
                SchemaIds(points', last.extracted[k].name) =
                SchemaIds(points, last.extracted[k].name)]_vars


\* the table names of a sequence of descriptors
table_names(real_schema) == {real_schema[k].name : k \in 1..Len(real_schema)}

\* C14: after an indexing run that wrote its records, no table_schema record
\* from before the run whose table is not in the extracted schema is left.
C14_NoOrphanAfterIndexing ==
    [][(/\ last'.op = "index" /\ last'.stored
        /\ (last' # last \/ points' # points))
       => \A i \in PointIds :
            (/\ points[i].type = "table_schema"
             /\ points[i].table \notin table_names(last'.extracted))
            => ~(/\ points'[i].type = "table_schema"
                 /\ points'[i].table = points[i].table)]_vars


\* C18: when the metadata query of one table fails during an indexing run,
\* the descriptors of all the other tables that are not skipped are still
\* extracted.
C18_ExtractionBestEffort ==
    (/\ last.op = "index"
     /\ last.failAt \in 1..Len(last.listed))
    => table_names(last.extracted) =
           table_names(extracted_tables(last.listed, Len(last.listed)))
               \ {last.listed[last.failAt].name}


Accepted(result) ==
    /\ result.kind \in {"str", "tuple"}
    /\ \E i \in 1..Len(result.val) : result.val[i] \notin Whitespace

\* C16: when generate_sql asks the service, the primary path succeeds, with
\* the trimmed text as SQL, exactly when the result is acceptable; with any
\* other result or an exception the pattern fallback produces the SQL.
C16_PrimaryAcceptedIffNonBlank ==
    (last.op = "generate_sql" /\ last.primary # "not run")
    => /\ last.primary = "succeeded" <=> Accepted(last.ask)
       /\ Accepted(last.ask)
            => /\ ~last.raised /\ last.path = "primary"
               /\ last.sql = strip(last.ask.val)
       /\ ~Accepted(last.ask)
            => /\ last.path = "fallback"
               /\ last.sql = generate_sql_from_patterns(last.question)

\* a tuple whose first element renders to padded SQL was accepted
C16_Witness ==
    /\ last.op = "generate_sql"
    /\ last.ask = [kind |-> "tuple",
                   val |-> <<" ", "S", "E", "L", "E", "C", "T", " ", "1", " ">>]
    /\ last.primary = "succeeded"
    /\ last.sql = <<"S", "E", "L", "E", "C", "T", " ", "1">>

\* a str of blanks was refused and the pattern fallback answered
C16_WitnessRefused ==
    /\ last.op = "generate_sql"
    /\ last.ask = [kind |-> "str", val |-> <<" ">>]
    /\ last.primary = "failed"
    /\ last.path = "fallback"


\* sub occurs in s as a contiguous run of characters
occurs_in(sub, s) ==
    \E i \in 1..(Len(s) + 1) :
        /\ i + Len(sub) - 1 <= Len(s)
        /\ SubSeq(s, i, i + Len(sub) - 1) = sub

\* the keyword rules of the pattern fallback in their order: the keywords
\* that must all occur, and the template returned
PatternRules ==
    << [keywords |-> {<<"a", "l", "l", " ", "e", "m", "p", "l", "o", "y", "e", "e", "s">>}, template |-> SQL_all_employees],
       [keywords |-> {<<"e", "m", "p", "l", "o", "y", "e", "e", "s", " ", "i", "n", " ", "e", "n", "g", "i", "n", "e", "e", "r", "i", "n", "g">>}, template |-> SQL_engineering],
       [keywords |-> {<<"a", "v", "e", "r", "a", "g", "e", " ", "s", "a", "l", "a", "r", "y">>}, template |-> SQL_average_salary],
       [keywords |-> {<<"n", "a", "m", "e", "s", " ", "s", "t", "a", "r", "t", " ", "w", "i", "t", "h">>,
                      <<"j">>}, template |-> SQL_names_j],
       [keywords |-> {<<"a", "l", "l", " ", "t", "a", "b", "l", "e", "s">>}, template |-> SQL_all_tables] >>

\* the rules whose keywords all occur in the lowercased question
MatchingRules(question) ==
    {r \in 1..Len(PatternRules) :
        \A k \in PatternRules[r].keywords : occurs_in(k, lower(question))}

\* C17: the pattern fallback returns the template of the first rule, in
\* the fixed order, whose keywords occur in the lowercased question, and
\* SELECT * FROM employees when no rule matches; the result is always one
\* of the fixed templates.
C17_FirstMatchingRuleWins ==
    last.op = "generate_sql_from_patterns"
    => /\ last.sql \in {PatternRules[r].template : r \in 1..Len(PatternRules)}
       /\ last.sql =
            IF MatchingRules(last.question) = {}
            THEN SQL_all_employees
            ELSE PatternRules[CHOOSE r \in MatchingRules(last.question) :
                     \A o \in MatchingRules(last.question) : r <= o].template

\* a question in mixed case that matches the second and the fifth rule
C17_Witness ==
    /\ last.op = "generate_sql_from_patterns"
    /\ last.question = join_phrases(<<<<"A", "L", "L", " ", "T", "A", "B", "L", "E", "S">>, <<"E", "m", "p", "l", "o", "y", "e", "e", "s", " ", "I", "n", " ", "E", "n", "g", "i", "n", "e", "e", "r", "i", "n", "g">>>>)
    /\ MatchingRules(last.question) = {2, 5}
    /\ last.sql = SQL_engineering


\* C19 as claimed: with the default configuration a request is attempted at
\* most 3 times before it fails.
C19_AtMostThreeAttempts ==
    last.op = "make_request" => last.attempts <= 3

\* C19 as amended: with the default configuration a request is attempted at
\* most 4 times, the first attempt and 3 retries; before the n-th retry it
\* waits 2^(n-1) seconds; and it fails before the fourth attempt only on a
\* response with a status below 500.
C19_AtMostFourAttempts ==
    last.op = "make_request"
    => /\ last.attempts <= local_vanna_max_retries + 1
       /\ Len(last.waits) = last.attempts - 1
       /\ \A n \in 1..Len(last.waits) : last.waits[n] = 2 ^ (n - 1)
       /\ \A n \in 1..(last.attempts - 1) :
             last.responses[n] \in {"timeout", "server error", "failed"}
       /\ (last.raised /\ last.attempts <= local_vanna_max_retries)
             => last.responses[last.attempts] = "client error"
       /\ ~last.raised <=> last.responses[last.attempts] = "ok"

\* four attempts that timed out, with waits of 1, 2 and 4 seconds
C19_Witness ==
    /\ last.op = "make_request"
    /\ \A n \in 1..4 : last.responses[n] = "timeout"
    /\ last.attempts = 4
    /\ last.waits = <<1, 2, 4>>
    /\ last.raised


\* the calls that ran the training of the initialise-and-train step
TrainedTasks == {t \in 1..MaxTasks : tasks[t].trained}

C21_NoSchemaBetweenClearAndUpsert ==
    (indexer.pc = "cleared" /\ indexer.cleared)
    => /\ SchemaCount(points) = 0
       /\ (/\ last.op = "retrieve"
           /\ client.rag.is_available /\ client.rag.vector_db
           /\ last.searched.ok
           /\ (~NoUsableResult \/ last.scrollOk))
          => \A k \in 1..Len(last.contexts) :
                last.contexts[k].type # "table_schema"

\* a retrieve between the two steps fell back to the scroll and got nothing
C21_Witness ==
    /\ indexer.pc = "cleared" /\ indexer.cleared
    /\ Len(indexer.real_schema) = 4
    /\ last.op = "retrieve"
    /\ client.rag.is_available /\ client.rag.vector_db
    /\ NoUsableResult /\ last.scrollOk
    /\ last.contexts = <<>>


\* C22: a QueryResponse with an empty sql_query is constructed when it
\* carries an error message, as the error response of a failed request is,
\* and is refused with ValueError when it carries none.
C22_ErrorResponseConstructible ==
    /\ QueryResponse_invalid(<<>>, "")
    /\ (/\ last.op = "process_query"
        /\ last.query_saved
        /\ (last.generation_failed \/ last.execution_failed))
       => /\ ~QueryResponse_invalid(<<>>, "Query execution failed")
          /\ last.response_saved = "error"
          /\ last.sql_query = <<>>
          /\ last.error_message # ""


\* C23: a generate_sql call on an instance whose RAG system an earlier call
\* initialised still runs the primary path, and the pattern fallback when
\* that fails, and does not raise for the state of the initialisation.
C23_LaterCallsStillGenerate ==
    (/\ last.op = "generate_sql"
     /\ last.initialized_before
     /\ client.vanna_client /\ client.api_key_set)
    => /\ last.primary # "not run"
       /\ last.path \in {"primary", "fallback"}
       /\ last.error # "RAG system not available"


\* C24: whenever execute saved the query and has finished, by returning or
\* by raising, a response or an error response is saved under the query id.
C24_ResponseSavedForEverySavedQuery ==
    (last.op = "process_query" /\ last.query_saved)
    => last.response_saved \in {"response", "error"}


\* C25: in both client implementations the flag _rag_initialized is set only
\* when initialize() succeeded: an instance whose _rag_initialized is true
\* has a RAG system whose is_available() is true.
C25_RagInitializedImpliesAvailable ==
    /\ client.rag_initialized => client.rag.is_available
    /\ local.rag_initialized => local.rag.is_available


\* C26: after any sequence of EnhancedRAGSystem.initialize() calls on one
\* instance, schema_contexts holds at most one entry per table, so that the
\* text-matching fallback returns the description of a table at most once.
C26_OneContextPerTable ==
    /\ \A i, j \in 1..Len(client.rag.schema_contexts) :
           client.rag.schema_contexts[i].table_name
             = client.rag.schema_contexts[j].table_name => i = j
    /\ (/\ last.op = "retrieve"
        /\ \/ ~client.rag.is_available
           \/ ~last.searched.ok
           \/ (NoUsableResult /\ ~last.scrollOk))
       => \A i, j \in 1..Len(last.contexts) :
              last.contexts[i] = last.contexts[j] => i = j


\* C27: when the extraction yields no tables, also when it fails, a run of
\* extract_and_store_real_schema returns failure and neither deletes nor
\* writes: the store is left as it was.
C27_EmptyExtractionLeavesStore ==
    [][(last'.op = "index" /\ last'.extracted = <<>>)
         => (points' = points /\ ~last'.returned)]_vars

\* a run on a database without tables, read without failure, while the
\* store holds schema records and answers
C27_Witness ==
    /\ last.op = "index"
    /\ last.listed = <<>>
    /\ last.failAt = 0
    /\ last.cleared
    /\ last.extracted = <<>>
    /\ ~last.returned
    /\ SchemaCount(points) > 0


\* C28: when extract_and_store_real_schema returns True, the store holds,
\* for every table it extracted, a table_schema record of that table whose
\* set of column names equals the extracted one.
C28_VerifiedRunStoredEveryTable ==
    (last.op = "index" /\ last.returned)
    => \A k \in 1..Len(last.extracted) :
         \E i \in PointIds :
           /\ points[i].type = "table_schema"
           /\ points[i].table = last.extracted[k].name
           /\ elements(points[i].columns) = elements(last.extracted[k].columns)

\* a run that returned True on the database with a table outside the id
\* table, over records of an earlier run
C28_Witness ==
    /\ last.op = "index"
    /\ last.returned
    /\ last.cleared
    /\ Len(last.extracted) = 2
    /\ \E k \in 1..Len(last.extracted) : last.extracted[k].name = T_customers.name
    /\ SchemaCount(points) >= 2


C30_ClientErrorEndsRequest ==
    last.op = "make_budget_request"
    => \A n \in 1..last.attempts :
         /\ last.responses[n] = "client error"
              => /\ last.attempts = n
                 /\ last.raised
                 /\ last.error = "Client error"
                 /\ Len(last.waits) = n - 1
         /\ (last.responses[n] \in {"timeout", "server error"}
             /\ n < last.retries + 1)
              => /\ last.attempts > n
                 /\ Len(last.waits) >= n
                 /\ last.waits[n] = 2 ^ (n - 1)

\* a timeout that is retried after one second, then a client error that
\* ends the request with one attempt of the budget left
C30_Witness ==
    /\ last.op = "make_budget_request"
    /\ last.retries = 2
    /\ last.responses[1] = "timeout"
    /\ last.responses[2] = "client error"
    /\ last.attempts = 2
    /\ last.waits = <<1>>
    /\ last.raised
    /\ last.error = "Client error"

=============================================================================
